---- MODULE Spec2Model ----
(***************************************************************************)
(* Model of the Emlid GNSS integration's data coordinator                 *)
(* (custom_components/emlid/coordinator.py): the push handlers, the        *)
(* throttle gate, the satellite trails and the REST poll cycle, together   *)
(* with the parts of homeassistant's DataUpdateCoordinator they call       *)
(* (data, last_update_success, the refresh timer, listener notification),  *)
(* the WebSocket client (api.py) over its reconnecting transport and its    *)
(* event dispatch, setup and teardown of the config entry (__init__.py),   *)
(* and the settings entities (switch.py, number.py, select.py).            *)
(*                                                                         *)
(* Python values: a dict is a function (a record when its keys are         *)
(* strings), a list is a sequence, a string that the code inspects by      *)
(* character is a sequence of one-character strings.  self.data is None    *)
(* until the first publish; None is the empty function here, which the     *)
(* code cannot tell from {} (`self.data.copy() if self.data else {}`) and  *)
(* which no publish ever produces.                                         *)
(***************************************************************************)
EXTENDS Integers, Sequences, FiniteSets, TLC

VARIABLES
    data,                 \* DataUpdateCoordinator.data, the published UnifiedState
    last_update_success,  \* DataUpdateCoordinator.last_update_success
    refresh_at,           \* time of the scheduled timer refresh, NoTimer when unscheduled
    pubs,                 \* listener notifications made by the last step
    last_op,              \* the last apply: "none", "push", "poll_failed", "poll", or "poll_same"
                          \* (a poll applied right after a poll that fetched the same snapshot)
    ws_data,              \* self._ws_data, the push cache
    last_update,          \* self._last_update, the throttle state
    throttle_interval,    \* self._throttle_interval, in seconds
    satellite_trails,     \* self._satellite_trails
    now,                  \* the wall clock read by datetime.now(), in seconds
    setup_pc,             \* position of async_setup_entry
    poll_pc,              \* position of _async_update_data: "idle" or "fetching"
    poll_rev,             \* revision of the device state served to the cycle in flight (1 when idle)
    poll_prev_success,    \* previous_update_success, read when the refresh started (TRUE when idle)
    tasks,                \* the fetches of the last TaskGroup: "none", "pending", "ok", "error", "cancelled"
    held,                 \* a published state object a subscriber kept
    held_value,           \* the contents of that object when it was handed over
    ret,                  \* the last direct _should_update call: its key and the value returned
    ws_connected,         \* EmlidWebSocketClient._connected
    sio,                  \* the transport clients connect() has created, self.sio the last:
                          \* "connected", "retrying" (dropped, in the reconnect loop),
                          \* "closed" (disconnected by the client) or "failed" (never connected)
    ws_call,              \* the last connect() or disconnect() call and what it did
    callbacks,            \* EmlidWebSocketClient._callbacks: event name -> list of callbacks
    dispatched,           \* the last broadcast message and what each callback did with it
    set_call,             \* the last settings call of an entity and how it ended
    inbox,                \* broadcast messages received whose on_broadcast task has not run yet
    arrived,              \* every broadcast message received through the inbox, in arrival order
    applied,              \* the values the lora_state handler has published for them, in order
    flow                  \* the config flow: its step, the errors it shows and its result

vars == <<data, last_update_success, refresh_at, pubs, last_op,
          ws_data, last_update, throttle_interval, satellite_trails, now,
          setup_pc, poll_pc, poll_rev, poll_prev_success, tasks, held, held_value, ret,
          ws_connected, sio, ws_call, callbacks, dispatched, set_call,
          inbox, arrived, applied, flow>>

coordVars == <<data, last_update_success, refresh_at, pubs, last_op>>
pollVars == <<poll_pc, poll_rev, poll_prev_success, tasks>>
heldVars == <<held, held_value>>
wsVars == <<ws_connected, sio, ws_call>>
queueVars == <<inbox, arrived, applied>>
apiVars == <<callbacks, dispatched, set_call, queueVars, flow>>

----------------------------------------------------------------------------
(* Bounds of the model and constants of the program *)

\* the core specification explores the first CoreHorizon seconds
CoreHorizon == 1
\* device revisions a poll cycle can be served
MaxRev == 2
\* refresh intervals the timer specification explores
SchedCycles == 2
\* refresh intervals the observations specification explores
ObsCycles == 2
\* transport clients the connection specification lets connect() create
MaxClients == 2
\* minutes the trail specification explores after the first refresh
TrailCycles == 21
\* the throttle specification samples the clock at every second up to here,
\* and around the trail interval
ThrottleHorizon == 5

REST_UPDATE_INTERVAL == 30
\* 1 / update_rate, for the default update_rate of 1.0 Hz
ThrottleSeconds == 1
TrailSeconds == 60
max_trail_length == 20

NoTimer == 0 - 1
\* `interval=None` of _should_update; timedelta(0) is falsy as well
NoInterval == 0

PollChannels == {"device_info", "configuration", "wifi_status", "bluetooth_status", "lora_rssi"}
PushChannels == {"navigation", "battery", "lora_connected", "power_usb_connected",
                 "power_battery_present", "correction_input_state", "logging_active",
                 "satellite_observations"}

----------------------------------------------------------------------------
(* dicts *)

EmptyMap == [k \in {} |-> TRUE]

\* d.get(k, default)
Get(d, k, default) == IF k \in DOMAIN d THEN d[k] ELSE default

\* d[k] = v on a copy of d
Put(d, k, v) == [x \in DOMAIN d \cup {k} |-> IF x = k THEN v ELSE d[x]]

\* {**base, **over}, and base.copy().update(over): the keys of over win
Overlay(base, over) ==
    [k \in DOMAIN base \cup DOMAIN over |-> IF k \in DOMAIN over THEN over[k] ELSE base[k]]

\* the part of a dict on the keys in S
Restrict(d, S) == [k \in DOMAIN d \cap S |-> d[k]]

----------------------------------------------------------------------------
(* ThrottleGate: _should_update *)

\* mutant: every check uses 1 / update_rate
CheckInterval_RateOnly(interval) == throttle_interval

\* `interval or self._throttle_interval`
CheckInterval(interval) == IF interval = NoInterval THEN throttle_interval ELSE interval

\* mutant: the interval must be exceeded, not reached
ShouldUpdate_Strict(lu, key, interval, t) ==
    IF key \notin DOMAIN lu
    THEN [ok |-> TRUE, last_update |-> Put(lu, key, t)]
    ELSE IF t - lu[key] > CheckInterval(interval)
         THEN [ok |-> TRUE, last_update |-> Put(lu, key, t)]
         ELSE [ok |-> FALSE, last_update |-> lu]

\* mutant: a rejected call records its time as well
ShouldUpdate_Touch(lu, key, interval, t) ==
    IF key \notin DOMAIN lu
    THEN [ok |-> TRUE, last_update |-> Put(lu, key, t)]
    ELSE IF t - lu[key] >= CheckInterval(interval)
         THEN [ok |-> TRUE, last_update |-> Put(lu, key, t)]
         ELSE [ok |-> FALSE, last_update |-> Put(lu, key, t)]

\* _should_update(key, interval) called at time t with self._last_update = lu:
\* the value returned and self._last_update afterwards
ShouldUpdate(lu, key, interval, t) ==
    IF key \notin DOMAIN lu
    THEN [ok |-> TRUE, last_update |-> Put(lu, key, t)]
    ELSE IF t - lu[key] >= CheckInterval(interval)
         THEN [ok |-> TRUE, last_update |-> Put(lu, key, t)]
         ELSE [ok |-> FALSE, last_update |-> lu]

----------------------------------------------------------------------------
(* ConnectionSupervisor: EmlidWebSocketClient over socketio.AsyncClient *)

\* mutant: connect() does not look at the flag
WsConnect_Always(connected, clients, outcome) ==
    IF outcome = "ok"
    THEN [connected |-> TRUE, sio |-> Append(clients, "connected"),
          raised |-> FALSE, result |-> "opened"]
    ELSE [connected |-> connected, sio |-> Append(clients, "failed"),
          raised |-> TRUE, result |-> "error"]

\* connect(), the transport's connect attempt ending in outcome: returns at
\* once when the flag is set; else creates a transport client and connects
\* it, the client's connect event setting the flag before sio.connect()
\* returns, or raises EmlidAPIError when the attempt fails
WsConnect(connected, clients, outcome) ==
    IF connected
    THEN [connected |-> connected, sio |-> clients, raised |-> FALSE, result |-> "noop"]
    ELSE IF outcome = "ok"
    THEN [connected |-> TRUE, sio |-> Append(clients, "connected"),
          raised |-> FALSE, result |-> "opened"]
    ELSE [connected |-> connected, sio |-> Append(clients, "failed"),
          raised |-> TRUE, result |-> "error"]

\* mutant: disconnect() closes the stream and leaves the flag set
WsDisconnect_KeepsFlag(connected, clients) ==
    IF Len(clients) > 0 /\ connected
    THEN [connected |-> connected, sio |-> [clients EXCEPT ![Len(clients)] = "closed"],
          result |-> "closed"]
    ELSE [connected |-> connected, sio |-> clients, result |-> "noop"]

\* disconnect(): `if self.sio and self._connected`, self.sio is disconnected
\* and the flag cleared; else nothing
WsDisconnect(connected, clients) ==
    IF Len(clients) > 0 /\ connected
    THEN [connected |-> FALSE, sio |-> [clients EXCEPT ![Len(clients)] = "closed"],
          result |-> "closed"]
    ELSE [connected |-> connected, sio |-> clients, result |-> "noop"]

\* the flag after a transport client's connect event
OnConnectEvent(connected) == TRUE

\* mutant: the disconnect event leaves the flag as it is
OnDisconnectEvent_Ignored(connected) == connected

\* the flag after a transport client's disconnect event
OnDisconnectEvent(connected) == FALSE

\* a transport client is connected: broadcasts reach on_broadcast and, through
\* _emit_callback, the coordinator's handlers
Connected == \E i \in 1..Len(sio) : sio[i] = "connected"

----------------------------------------------------------------------------
(* DataUpdateCoordinator: what the coordinator inherits and calls *)

\* listeners (the entities) are registered once the platforms are set up
Listening == setup_pc = "loaded"

\* _schedule_refresh(), guarded by `if self._listeners`
ScheduleRefresh == IF Listening THEN now + REST_UPDATE_INTERVAL ELSE NoTimer

\* mutant: a publish is refused while the last poll is marked failed
AsyncSetUpdatedData_OnlyAfterSuccess(d) ==
    IF last_update_success
    THEN /\ data' = d
         /\ last_update_success' = TRUE
         /\ refresh_at' = IF setup_pc = "loaded" THEN now + REST_UPDATE_INTERVAL ELSE NoTimer
         /\ pubs' = 1
         /\ last_op' = "push"
    ELSE /\ pubs' = 0
         /\ UNCHANGED <<data, last_update_success, refresh_at, last_op>>

\* async_set_updated_data(d): unschedule the refresh, set data, mark success,
\* schedule the refresh again and notify the listeners
AsyncSetUpdatedData(d) ==
    /\ data' = d
    /\ last_update_success' = TRUE
    /\ refresh_at' = ScheduleRefresh
    /\ pubs' = 1
    /\ last_op' = "push"

\* a handler that returns without publishing
NoPublish ==
    /\ pubs' = 0
    /\ UNCHANGED <<data, last_update_success, refresh_at, last_op>>

----------------------------------------------------------------------------
(* StateMerger *)

\* mutant: the merged state is seeded with an empty navigation channel
MergeData_Seeded(d, ws) == Put(Overlay(d, ws), "navigation", EmptyMap)

\* mutant: the previous published state wins over the push cache
MergeData_DataWins(d, ws) == Overlay(ws, d)

\* _merge_data(): self.data (or {}) overlaid with self._ws_data
MergeData(d, ws) == Overlay(d, ws)

----------------------------------------------------------------------------
(* The device: payloads of push events and responses of the REST API *)

\* the response of endpoint c while the device is at revision r; at revision 1
\* the LoRa radio reports no rssi and the other responses lack a field that
\* later revisions have
DeviceResp(c, r) ==
    IF c = "lora_rssi"
    THEN (IF r = 1 THEN EmptyMap ELSE [rssi |-> 0 - (60 + r)])
    ELSE IF r = 1 THEN [rev |-> r] ELSE [rev |-> r, changed |-> TRUE]

BatteryPayloads ==
    { [state_of_charge |-> 80, voltage |-> 4, current |-> 1, temperature |-> 25,
       charger_status |-> "Charging", usb_charger_current |-> "0.5", usb_charger_voltage |-> "5.0"],
      [state_of_charge |-> 50] }

LoraPayloads == { [connected |-> TRUE], [connected |-> FALSE] }

PowerPayloads == { [usb_cable_status |-> TRUE], [battery_status |-> TRUE] }

\* satellite identifiers, character by character
G01 == <<"G", "0", "1">>
R02 == <<"R", "0", "2">>

SatG01 == [satellite_index |-> G01, azimuth |-> 120, elevation |-> 45, signal_to_noise_ratio |-> 40]
SatR02 == [satellite_index |-> R02, azimuth |-> 300, elevation |-> 10]

ObsPayloads ==
    { [satellites_count |-> [rover |-> 2], satellites |-> [rover |-> <<SatG01, SatR02>>, base |-> <<SatG01>>]],
      [satellites |-> [rover |-> <<SatG01>>]],
      EmptyMap }

----------------------------------------------------------------------------
(* Push handlers *)

\* battery_data of _handle_battery
BatteryData(p) ==
    [state_of_charge |-> Get(p, "state_of_charge", 0),
     voltage |-> Get(p, "voltage", 0),
     current |-> Get(p, "current", 0),
     temperature |-> Get(p, "temperature", 0),
     charger_status |-> Get(p, "charger_status", "Unknown"),
     usb_charger_current |-> Get(p, "usb_charger_current", "None"),
     usb_charger_voltage |-> Get(p, "usb_charger_voltage", "None")]

\* what a handler of the core leaves alone
HandlerFrame ==
    UNCHANGED <<throttle_interval, satellite_trails, now, setup_pc, pollVars, heldVars, ret,
                wsVars, apiVars>>

\* a JSON value that is no object (a string, a list, null): it has no get()
NonDict == [not_a_dict |-> TRUE]

\* data.get of _handle_battery raises AttributeError
BatteryRaises(p) == p = NonDict

\* _handle_battery: the throttle is asked first; an exception leaves the
\* handler before the cache is written
OnBattery(p) ==
    /\ Connected
    /\ LET r == ShouldUpdate(last_update, "battery", NoInterval, now) IN
        /\ last_update' = r.last_update
        /\ IF r.ok /\ ~BatteryRaises(p)
           THEN /\ ws_data' = Put(ws_data, "battery", BatteryData(p))
                /\ AsyncSetUpdatedData(MergeData(data, ws_data'))
           ELSE /\ UNCHANGED ws_data
                /\ NoPublish

HandleBattery(p) ==
    /\ OnBattery(p)
    /\ HandlerFrame

HandleLoraState(p) ==
    /\ Connected
    /\ ws_data' = Put(ws_data, "lora_connected", Get(p, "connected", FALSE))
    /\ AsyncSetUpdatedData(MergeData(data, ws_data'))
    /\ UNCHANGED last_update
    /\ HandlerFrame

\* mutant: only the USB flag is written
PowerSupplyWrite_UsbOnly(ws, p) ==
    Put(ws, "power_usb_connected", Get(p, "usb_cable_status", FALSE))

\* self._ws_data after the two assignments of _handle_power_supply
PowerSupplyWrite(ws, p) ==
    Put(Put(ws, "power_usb_connected", Get(p, "usb_cable_status", FALSE)),
        "power_battery_present", Get(p, "battery_status", FALSE))

HandlePowerSupply(p) ==
    /\ Connected
    /\ ws_data' = PowerSupplyWrite(ws_data, p)
    /\ AsyncSetUpdatedData(MergeData(data, ws_data'))
    /\ UNCHANGED last_update
    /\ HandlerFrame

\* navigation events: a full one with east and north accuracy 3 and 4, one
\* with a solution only, one with east accuracy only, and one with 5 and 12
NavPayloads ==
    { [solution |-> "fix", positioning_mode |-> "kinematic", baseline |-> 12,
       dop |-> [h |-> 1],
       satellites |-> [rover |-> 14, base |-> 12, valid |-> 10],
       rover_position |-> [coordinates |-> [lat |-> 47, lon |-> 8, h |-> 400],
                           accuracy |-> [e |-> 3, n |-> 4, u |-> 6]],
       velocity |-> [e |-> 1, n |-> 2, u |-> 0]],
      [solution |-> "float"],
      [rover_position |-> [accuracy |-> [e |-> 3]]],
      [rover_position |-> [accuracy |-> [e |-> 5, n |-> 12]]] }

\* s ** 0.5 for a perfect square s, where the floating point result is exact
\* (the accuracies of NavPayloads have integral norms)
Root(s) == CHOOSE r \in 0..s : r * r = s

\* mutant: the accuracies are added
HorizontalAccuracy_Sum(e_acc, n_acc) == e_acc + n_acc

\* (e_acc**2 + n_acc**2) ** 0.5
HorizontalAccuracy(e_acc, n_acc) == Root(e_acc * e_acc + n_acc * n_acc)

\* nav_data of _handle_navigation
NavData(p) ==
    LET satellites == Get(p, "satellites", EmptyMap)
        rover_pos == Get(p, "rover_position", EmptyMap)
        coords == Get(rover_pos, "coordinates", EmptyMap)
        accuracy == Get(rover_pos, "accuracy", EmptyMap)
        velocity == Get(p, "velocity", EmptyMap)
    IN [solution |-> Get(p, "solution", "no_solution"),
        positioning_mode |-> Get(p, "positioning_mode", "unknown"),
        baseline |-> Get(p, "baseline", 0),
        hdop |-> Get(Get(p, "dop", EmptyMap), "h", 0),
        satellites_rover |-> Get(satellites, "rover", 0),
        satellites_base |-> Get(satellites, "base", 0),
        satellites_valid |-> Get(satellites, "valid", 0),
        latitude |-> Get(coords, "lat", 0),
        longitude |-> Get(coords, "lon", 0),
        altitude |-> Get(coords, "h", 0),
        horizontal_accuracy |-> HorizontalAccuracy(Get(accuracy, "e", 0), Get(accuracy, "n", 0)),
        vertical_accuracy |-> Get(accuracy, "u", 0),
        velocity_east |-> Get(velocity, "e", 0),
        velocity_north |-> Get(velocity, "n", 0),
        velocity_up |-> Get(velocity, "u", 0)]

\* navigation payloads whose handler raises: no dict at all, and a null
\* where an object is expected
MalformedNavPayloads ==
    { NonDict,
      [solution |-> "fix", dop |-> NonDict],
      [solution |-> "single", rover_position |-> [coordinates |-> NonDict]] }

\* mutant: a value that is no dict reads as an empty one
NavigationRaises_Never(p) == FALSE

\* data.get, or the get of a nested value that is no dict, raises
\* AttributeError in _handle_navigation
NavigationRaises(p) ==
    \/ p = NonDict
    \/ \E k \in {"dop", "satellites", "rover_position", "velocity"} :
           Get(p, k, EmptyMap) = NonDict
    \/ \E k \in {"coordinates", "accuracy"} :
           Get(Get(p, "rover_position", EmptyMap), k, EmptyMap) = NonDict

\* _handle_navigation: the throttle is asked first; an exception leaves the
\* handler before the cache is written
OnNavigation(p) ==
    /\ Connected
    /\ LET r == ShouldUpdate(last_update, "navigation", NoInterval, now) IN
        /\ last_update' = r.last_update
        /\ IF r.ok /\ ~NavigationRaises(p)
           THEN /\ ws_data' = Put(ws_data, "navigation", NavData(p))
                /\ AsyncSetUpdatedData(MergeData(data, ws_data'))
           ELSE /\ UNCHANGED ws_data
                /\ NoPublish

HandleNavigation(p) ==
    /\ OnNavigation(p)
    /\ HandlerFrame

\* stream_status events: a correction input that receives, one without
\* state, and no correction input
StreamPayloads ==
    { [correction_input |-> <<[state |-> "receiving"]>>],
      [correction_input |-> <<EmptyMap>>],
      [correction_input |-> << >>],
      EmptyMap }

HandleStreamStatus(p) ==
    /\ Connected
    /\ LET correction_input == Get(p, "correction_input", << >>) IN
        IF Len(correction_input) > 0
        THEN /\ ws_data' = Put(ws_data, "correction_input_state",
                               Get(correction_input[1], "state", "unknown"))
             /\ AsyncSetUpdatedData(MergeData(data, ws_data'))
        ELSE /\ UNCHANGED ws_data
             /\ NoPublish
    /\ UNCHANGED last_update
    /\ HandlerFrame

\* active_logs events: the raw log written, a log that is not written, none
LogPayloads ==
    { [raw |-> [is_writing |-> TRUE], solution |-> [is_writing |-> FALSE]],
      [base |-> EmptyMap],
      EmptyMap }

\* is_logging of _handle_active_logs
IsLogging(p) ==
    \E log_type \in {"raw", "solution", "base"} :
        log_type \in DOMAIN p /\ Get(p[log_type], "is_writing", FALSE)

HandleActiveLogs(p) ==
    /\ Connected
    /\ ws_data' = Put(ws_data, "logging_active", IsLogging(p))
    /\ AsyncSetUpdatedData(MergeData(data, ws_data'))
    /\ UNCHANGED last_update
    /\ HandlerFrame

----------------------------------------------------------------------------
(* Satellite observations and the TrailBuffer *)

\* sat_id.startswith(c)
StartsWith(sat_id, c) == Len(sat_id) > 0 /\ sat_id[1] = c

\* mutant: a satellite of no known prefix goes to the last list
Constellation_ElseLast(sat) ==
    LET sat_id == Get(sat, "satellite_index", << >>) IN
    IF StartsWith(sat_id, "G") THEN "GPS"
    ELSE IF StartsWith(sat_id, "R") THEN "GLONASS"
    ELSE IF StartsWith(sat_id, "E") THEN "Galileo"
    ELSE IF StartsWith(sat_id, "C") THEN "BeiDou"
    ELSE IF StartsWith(sat_id, "J") THEN "QZSS"
    ELSE "SBAS"

\* the constellation list a rover satellite is appended to, "none" for no list
Constellation(sat) ==
    LET sat_id == Get(sat, "satellite_index", << >>) IN
    IF StartsWith(sat_id, "G") THEN "GPS"
    ELSE IF StartsWith(sat_id, "R") THEN "GLONASS"
    ELSE IF StartsWith(sat_id, "E") THEN "Galileo"
    ELSE IF StartsWith(sat_id, "C") THEN "BeiDou"
    ELSE IF StartsWith(sat_id, "J") THEN "QZSS"
    ELSE IF StartsWith(sat_id, "S") THEN "SBAS"
    ELSE "none"

ByConstellation(rover) ==
    [c \in {"GPS", "GLONASS", "Galileo", "BeiDou", "QZSS", "SBAS"} |->
        SelectSeq(rover, LAMBDA sat : Constellation(sat) = c)]

\* the dict appended to a trail
TrailPoint(sat, t) ==
    [azimuth |-> Get(sat, "azimuth", 0),
     elevation |-> Get(sat, "elevation", 0),
     snr |-> Get(sat, "signal_to_noise_ratio", 0),
     timestamp |-> t]

\* mutant: the first n points are kept, the newest dropped
LastN_Oldest(trail, n) == SubSeq(trail, 1, n)

\* trail[-n:]
LastN(trail, n) == SubSeq(trail, Len(trail) - n + 1, Len(trail))

\* mutant: the trail is never cut
TrailAppend_NoCut(trail, point) == Append(trail, point)

\* the trail after the append and the cut to the last max_trail_length points
TrailAppend(trail, point) ==
    LET grown == Append(trail, point) IN
    IF Len(grown) > max_trail_length THEN LastN(grown, max_trail_length) ELSE grown

\* the loop over rover_satellites from index i on
RECURSIVE AppendTrails(_, _, _, _)
AppendTrails(trails, rover, i, t) ==
    IF i > Len(rover) THEN trails
    ELSE LET sat == rover[i]
             sat_id == Get(sat, "satellite_index", << >>)
         IN IF sat_id # << >>
            THEN AppendTrails(
                    Put(trails, sat_id,
                        TrailAppend(Get(trails, sat_id, << >>), TrailPoint(sat, t))),
                    rover, i + 1, t)
            ELSE AppendTrails(trails, rover, i + 1, t)

\* current_sat_ids (a satellite without identifier contributes None, which is
\* no key of the trails, as the empty identifier here)
CurrentSatIds(rover) == {Get(rover[i], "satellite_index", << >>) : i \in 1..Len(rover)}

\* mutant: the trails of satellites no longer visible are kept
TrailsAfterRefresh_NoCleanup(trails, rover, t) == AppendTrails(trails, rover, 1, t)

\* self._satellite_trails after an allowed refresh: append, then drop the
\* trails of the satellites not in the current cycle
TrailsAfterRefresh(trails, rover, t) ==
    Restrict(AppendTrails(trails, rover, 1, t), CurrentSatIds(rover))

\* observations["satellite_trails"] is the dict self._satellite_trails itself,
\* not a copy: the published state holds a reference to it
TrailsRef == "self._satellite_trails"

\* the observations dict of _handle_observations
Observations(p, t) ==
    LET rover == Get(Get(p, "satellites", EmptyMap), "rover", << >>) IN
    [satellites_count |-> Get(p, "satellites_count", EmptyMap),
     rover_satellites |-> rover,
     base_satellites |-> Get(Get(p, "satellites", EmptyMap), "base", << >>),
     timestamp |-> t,
     by_constellation |-> ByConstellation(rover),
     satellite_trails |-> TrailsRef]

\* what a reader of state object d finds in it now: the reference followed
Deref(d) ==
    IF "satellite_observations" \in DOMAIN d
    THEN [d EXCEPT !["satellite_observations"]["satellite_trails"] = satellite_trails]
    ELSE d

HandleObservations(p) ==
    /\ Connected
    /\ LET r == ShouldUpdate(last_update, "satellite_trails", TrailSeconds, now)
           rover == Get(Get(p, "satellites", EmptyMap), "rover", << >>)
       IN /\ last_update' = r.last_update
          /\ satellite_trails' =
                IF r.ok THEN TrailsAfterRefresh(satellite_trails, rover, now)
                ELSE satellite_trails
    /\ ws_data' = Put(ws_data, "satellite_observations", Observations(p, now))
    /\ AsyncSetUpdatedData(MergeData(data, ws_data'))
    /\ UNCHANGED <<throttle_interval, now, setup_pc, pollVars, heldVars, ret, wsVars, apiVars>>

\* a subscriber (the satellite_observations sensor's extra_state_attributes)
\* reads the published state and keeps what it got; one such read is followed
SubscriberRead ==
    /\ Listening
    /\ held = EmptyMap
    /\ data # EmptyMap
    /\ held' = data
    /\ held_value' = Deref(data)
    /\ pubs' = 0
    /\ UNCHANGED <<data, last_update_success, refresh_at, last_op, ws_data, last_update,
                   throttle_interval, satellite_trails, now, setup_pc, pollVars, ret, wsVars,
                   apiVars>>

\* a direct call of the throttle gate, as the handlers make it
ThrottleCall(key, interval) ==
    /\ LET r == ShouldUpdate(last_update, key, interval, now) IN
        /\ last_update' = r.last_update
        /\ ret' = [key |-> key, ok |-> r.ok]
    /\ pubs' = 0
    /\ UNCHANGED <<data, last_update_success, refresh_at, last_op, ws_data,
                   throttle_interval, satellite_trails, now, setup_pc, pollVars, heldVars, wsVars,
                   apiVars>>

----------------------------------------------------------------------------
(* PollScheduler: _async_update_data under DataUpdateCoordinator._async_refresh *)

\* mutant: a response without rssi reads as 0
LoraRssi_Zero(resp) == Get(resp, "rssi", 0)

\* lora_rssi_task.result().get("rssi", -1)
LoraRssi(resp) == Get(resp, "rssi", -1)

\* rest_data built from the five task results
RestData(r) ==
    [c \in PollChannels |->
        IF c = "lora_rssi" THEN LoraRssi(DeviceResp(c, r)) ELSE DeviceResp(c, r)]

NoTasks == [c \in PollChannels |-> "none"]

PollFrame ==
    UNCHANGED <<ws_data, last_update, throttle_interval, satellite_trails, now, heldVars, ret,
                apiVars>>

\* _async_refresh up to the suspension of _async_update_data in the TaskGroup:
\* the timer is unscheduled and the five fetches are created
AsyncRefreshStart ==
    /\ poll_pc = "idle"
    /\ poll_pc' = "fetching"
    /\ \E r \in 1..MaxRev : poll_rev' = r
    /\ poll_prev_success' = last_update_success
    /\ tasks' = [c \in PollChannels |-> "pending"]
    /\ refresh_at' = NoTimer
    /\ pubs' = 0
    /\ UNCHANGED <<data, last_update_success, last_op>>

StartRefresh ==
    /\ AsyncRefreshStart
    /\ PollFrame

\* mutant: setup goes on after a failed get_info
SetupAfterInfo_Ignored(outcome) == "connect"

\* async_setup_entry after get_info(): on an exception setup returns False,
\* else the coordinator is constructed and the WebSocket connect is next
SetupAfterInfo(outcome) == IF outcome = "ok" THEN "connect" ELSE "info_failed"

\* async_setup_entry validates the connection with get_info()
SetupInfo(outcome) ==
    /\ setup_pc = "validate"
    /\ setup_pc' = SetupAfterInfo(outcome)
    /\ pubs' = 0
    /\ UNCHANGED <<data, last_update_success, refresh_at, last_op, pollVars, wsVars>>
    /\ PollFrame

\* async_setup_entry calls ws_client.connect(): when it raises, setup returns
\* False; else the first refresh starts
SetupConnect(outcome) ==
    /\ setup_pc = "connect"
    /\ LET r == WsConnect(ws_connected, sio, outcome) IN
        /\ ws_connected' = r.connected
        /\ sio' = r.sio
        /\ ws_call' = [op |-> "connect", result |-> r.result]
        /\ IF r.raised
           THEN /\ setup_pc' = "connect_failed"
                /\ pubs' = 0
                /\ UNCHANGED <<data, last_update_success, refresh_at, last_op, pollVars>>
                /\ PollFrame
           ELSE /\ setup_pc' = "refreshing"
                /\ StartRefresh

\* async_setup_entry: the WebSocket connects and the first refresh starts
SetupConnectOk == SetupConnect("ok")

\* async_setup_entry: the WebSocket connect fails, setup returns False
SetupConnectFail == SetupConnect("error")

\* the refresh timer fires (a cycle takes at most the 10 s fetch timeout, so
\* none is in flight when the 30 s timer fires)
TimerFire ==
    /\ Listening
    /\ refresh_at # NoTimer
    /\ now >= refresh_at
    /\ UNCHANGED <<setup_pc, wsVars>>
    /\ StartRefresh

\* async_request_refresh() of an entity of the coordinator, asked to update
\* out of band (CoordinatorEntity.async_update)
RequestRefresh ==
    /\ Listening
    /\ UNCHANGED <<setup_pc, wsVars>>
    /\ StartRefresh

\* one fetch returns its response
PollTaskOk(c) ==
    /\ poll_pc = "fetching"
    /\ tasks[c] = "pending"
    /\ tasks' = [tasks EXCEPT ![c] = "ok"]
    /\ pubs' = 0
    /\ UNCHANGED <<data, last_update_success, refresh_at, last_op>>
    /\ UNCHANGED <<poll_pc, poll_rev, poll_prev_success, setup_pc, wsVars>>
    /\ PollFrame

\* mutant: the snapshot is stamped with the time it was applied
DataAfterPoll_Stamped(d, rest, ws) == Put(Overlay(rest, ws), "timestamp", now)

\* mutant: the cycle returns the responses alone
DataAfterPoll_RestOnly(d, rest, ws) == rest

\* mutant: a response is merged into the channel's previous value field by field
DataAfterPoll_DeepMerge(d, rest, ws) ==
    Overlay([c \in DOMAIN rest |->
                IF c # "lora_rssi" /\ c \in DOMAIN d THEN Overlay(d[c], rest[c]) ELSE rest[c]],
            ws)

\* self.data after a cycle whose fetches all returned: the value
\* _async_update_data returns, {**rest_data, **self._ws_data}
DataAfterPoll(d, rest, ws) == Overlay(rest, ws)

\* every fetch returned: _async_update_data returns and _async_refresh sets
\* data, schedules the next refresh and notifies the listeners
PollReturn ==
    /\ poll_pc = "fetching"
    /\ \A c \in PollChannels : tasks[c] = "ok"
    /\ data' = DataAfterPoll(data, RestData(poll_rev), ws_data)
    /\ last_update_success' = TRUE
    /\ refresh_at' = ScheduleRefresh
    /\ pubs' = 1
    /\ last_op' = IF last_op \in {"poll", "poll_same"}
                      /\ Restrict(data, PollChannels) = RestData(poll_rev)
                   THEN "poll_same" ELSE "poll"
    /\ poll_pc' = "idle"
    /\ UNCHANGED <<tasks, wsVars>>
    /\ setup_pc' = IF setup_pc = "refreshing" THEN "forward" ELSE setup_pc
    /\ poll_rev' = 1
    /\ poll_prev_success' = TRUE
    /\ PollFrame

\* mutant: the results fetched before the failure are merged
DataAfterFailedPoll_Partial(d, done, ws) == Overlay(Overlay(d, done), ws)

\* self.data after a cycle in which a fetch failed (done: the results of the
\* fetches that had returned, which the except clause does not read)
DataAfterFailedPoll(d, done, ws) == d

\* mutant: the failure is not marked
SuccessAfterFailedPoll_Kept(s) == s

\* last_update_success after UpdateFailed
SuccessAfterFailedPoll(s) == FALSE

\* one fetch raises EmlidAPIError (timeout, non-success response): the
\* TaskGroup cancels the fetches still pending, _async_update_data raises
\* UpdateFailed and _async_refresh marks the failure, schedules the next
\* refresh and notifies the listeners unless the refresh before had failed too.
\* (Nothing reads or writes the coordinator between the fetch's error and the
\* except clause, so the two are one step.)
PollTaskFail(c) ==
    /\ poll_pc = "fetching"
    /\ tasks[c] = "pending"
    /\ data' = DataAfterFailedPoll(data,
                  Restrict(RestData(poll_rev), {x \in PollChannels : tasks[x] = "ok"}), ws_data)
    /\ last_update_success' = SuccessAfterFailedPoll(last_update_success)
    /\ refresh_at' = ScheduleRefresh
    /\ pubs' = IF poll_prev_success THEN 1 ELSE 0
    /\ last_op' = "poll_failed"
    /\ poll_pc' = "idle"
    /\ poll_rev' = 1
    /\ poll_prev_success' = TRUE
    /\ tasks' = [x \in PollChannels |->
                    IF x = c THEN "error"
                    ELSE IF tasks[x] = "pending" THEN "cancelled" ELSE tasks[x]]
    /\ setup_pc' = IF setup_pc = "refreshing" THEN "refresh_failed" ELSE setup_pc
    /\ UNCHANGED wsVars
    /\ PollFrame

\* async_forward_entry_setups: the entities register as listeners, the first
\* of them schedules the refresh timer
SetupForward ==
    /\ setup_pc = "forward"
    /\ setup_pc' = "loaded"
    /\ refresh_at' = now + REST_UPDATE_INTERVAL
    /\ pubs' = 0
    /\ UNCHANGED <<data, last_update_success, last_op, pollVars, wsVars>>
    /\ PollFrame

\* async_unload_entry, no poll cycle in flight: ws_client.disconnect(), then
\* the platforms are unloaded: the entities stop listening, which unschedules
\* the refresh timer
SetupUnload ==
    /\ setup_pc = "loaded"
    /\ poll_pc = "idle"
    /\ setup_pc' = "unloaded"
    /\ LET r == WsDisconnect(ws_connected, sio) IN
        /\ ws_connected' = r.connected
        /\ sio' = r.sio
        /\ ws_call' = [op |-> "disconnect", result |-> r.result]
    /\ refresh_at' = NoTimer
    /\ pubs' = 0
    /\ UNCHANGED <<data, last_update_success, last_op, pollVars>>
    /\ PollFrame

----------------------------------------------------------------------------
(* The transport and further calls of the client *)

\* the connection of transport client i drops: its disconnect event clears
\* the flag and, with reconnection=True, the client starts its retry loop
TransportDrop(i) ==
    /\ i \in 1..Len(sio)
    /\ sio[i] = "connected"
    /\ sio' = [sio EXCEPT ![i] = "retrying"]
    /\ ws_connected' = OnDisconnectEvent(ws_connected)
    /\ pubs' = 0
    /\ UNCHANGED <<data, last_update_success, refresh_at, last_op, pollVars, setup_pc, ws_call>>
    /\ PollFrame

\* the retry loop of transport client i gets through: its connect event sets
\* the flag
TransportReconnect(i) ==
    /\ i \in 1..Len(sio)
    /\ sio[i] = "retrying"
    /\ sio' = [sio EXCEPT ![i] = "connected"]
    /\ ws_connected' = OnConnectEvent(ws_connected)
    /\ pubs' = 0
    /\ UNCHANGED <<data, last_update_success, refresh_at, last_op, pollVars, setup_pc, ws_call>>
    /\ PollFrame

\* connect() is called again on the client of a set-up or unloaded entry,
\* whatever its transport clients are doing
ConnectAgain(outcome) ==
    /\ setup_pc \in {"loaded", "unloaded"}
    /\ ws_connected \/ Len(sio) < MaxClients
    /\ LET r == WsConnect(ws_connected, sio, outcome) IN
        /\ ws_connected' = r.connected
        /\ sio' = r.sio
        /\ ws_call' = [op |-> "connect", result |-> r.result]
    /\ pubs' = 0
    /\ UNCHANGED <<data, last_update_success, refresh_at, last_op, pollVars, setup_pc>>
    /\ PollFrame

\* connect() is called again, no transport client being in its retry loop
ConnectCall(outcome) ==
    /\ \A i \in 1..Len(sio) : sio[i] # "retrying"
    /\ ConnectAgain(outcome)

\* disconnect() is called again after the entry was unloaded
DisconnectCall ==
    /\ setup_pc = "unloaded"
    /\ LET r == WsDisconnect(ws_connected, sio) IN
        /\ ws_connected' = r.connected
        /\ sio' = r.sio
        /\ ws_call' = [op |-> "disconnect", result |-> r.result]
    /\ pubs' = 0
    /\ UNCHANGED <<data, last_update_success, refresh_at, last_op, pollVars, setup_pc>>
    /\ PollFrame

----------------------------------------------------------------------------
(* Event dispatch of the WebSocket client: on, on_broadcast, _emit_callback *)

\* a callback list holds at most MaxCallbacks callbacks
MaxCallbacks == 3

\* the handler the coordinator registers for each event name
HandlerOf ==
    [navigation |-> "_handle_navigation",
     battery_status |-> "_handle_battery",
     lora_state |-> "_handle_lora_state",
     power_supply_status |-> "_handle_power_supply",
     stream_status |-> "_handle_stream_status",
     active_logs |-> "_handle_active_logs",
     observations |-> "_handle_observations"]

\* ws_client._callbacks after the coordinator is constructed
CoordinatorCallbacks == [e \in DOMAIN HandlerOf |-> <<HandlerOf[e]>>]

\* callbacks of another caller of on(): one that returns and one that raises
ForeignCallbacks == {"listener", "faulty"}

\* on(event, callback) on a copy of the callback table
On(cbs, event, callback) ==
    Put(cbs, event, Append(Get(cbs, event, << >>), callback))

\* on_broadcast passes on only a dict that has a name and a payload
Dispatches(msg) ==
    /\ msg # NonDict
    /\ "name" \in DOMAIN msg
    /\ "payload" \in DOMAIN msg

\* callback(data) raises: a handler of the coordinator without throttle
\* starts with data.get
Raises(callback, payload) ==
    \/ callback = "faulty"
    \/ /\ callback \in {HandlerOf[e] : e \in DOMAIN HandlerOf \ {"navigation", "battery_status"}}
       /\ payload = NonDict

\* mutant: the first exception ends the loop over the callbacks
EmitCallback_StopAtError(cbs, payload) ==
    [i \in 1..Len(cbs) |->
        IF \E j \in 1..(i - 1) : Raises(cbs[j], payload) THEN "skipped"
        ELSE IF Raises(cbs[i], payload) THEN "raised" ELSE "ran"]

\* _emit_callback: every callback of the list is called, an exception is
\* logged and the loop goes on
EmitCallback(cbs, payload) ==
    [i \in 1..Len(cbs) |-> IF Raises(cbs[i], payload) THEN "raised" ELSE "ran"]

NoDispatch == [event |-> "none", outcomes |-> << >>, after_error |-> FALSE]

\* messages of the broadcast channel: no dict, a dict without payload, and
\* lora_state and reboot events with a payload that is a dict or not
BroadcastData ==
    {NonDict, [name |-> "lora_state"]}
    \cup {[name |-> e, payload |-> p] :
            e \in {"lora_state", "reboot"}, p \in LoraPayloads \cup {NonDict}}

\* another component registers a callback for an event
Register(event, callback) ==
    /\ Len(Get(callbacks, event, << >>)) < MaxCallbacks
    /\ callbacks' = On(callbacks, event, callback)
    /\ NoPublish
    /\ UNCHANGED <<ws_data, last_update, throttle_interval, satellite_trails, now, setup_pc,
                   pollVars, heldVars, ret, wsVars, dispatched, set_call, queueVars, flow>>

\* on_broadcast(msg) of a connected transport: the callbacks of the event run
\* in the order of registration, the coordinator's lora_state handler among them
OnBroadcast(msg) ==
    /\ Connected
    /\ LET event == IF Dispatches(msg) THEN msg.name ELSE "none"
           cbs == IF Dispatches(msg) THEN Get(callbacks, msg.name, << >>) ELSE << >>
           outcomes == IF Dispatches(msg) THEN EmitCallback(cbs, msg.payload) ELSE << >>
           handled == \E i \in 1..Len(cbs) :
                          cbs[i] = "_handle_lora_state" /\ outcomes[i] = "ran"
       IN /\ dispatched' =
                [event |-> event, outcomes |-> outcomes,
                 after_error |-> \/ dispatched.after_error
                                 \/ \E i \in 1..Len(dispatched.outcomes) :
                                        dispatched.outcomes[i] = "raised"]
          /\ IF handled
             THEN /\ ws_data' = Put(ws_data, "lora_connected", Get(msg.payload, "connected", FALSE))
                  /\ AsyncSetUpdatedData(MergeData(data, ws_data'))
             ELSE /\ UNCHANGED ws_data
                  /\ NoPublish
    /\ UNCHANGED <<last_update, throttle_interval, satellite_trails, now, setup_pc,
                   pollVars, heldVars, ret, wsVars, callbacks, set_call, flow>>

\* what _emit_callback leaves of an event with the one callback of the
\* coordinator: whether it ran or its exception was logged
Logged(event, raised) ==
    [event |-> event,
     outcomes |-> <<IF raised THEN "raised" ELSE "ran">>,
     after_error |-> \/ dispatched.after_error
                     \/ \E i \in 1..Len(dispatched.outcomes) :
                            dispatched.outcomes[i] = "raised"]

\* what the emit of a throttled event leaves alone
EmitFrame ==
    UNCHANGED <<throttle_interval, satellite_trails, now, setup_pc, pollVars, heldVars, ret,
                wsVars, callbacks, set_call, queueVars, flow>>

\* on_broadcast of a navigation message
EmitNavigation(p) ==
    /\ OnNavigation(p)
    /\ dispatched' = Logged("navigation",
                            /\ ShouldUpdate(last_update, "navigation", NoInterval, now).ok
                            /\ NavigationRaises(p))
    /\ EmitFrame

\* on_broadcast of a battery_status message
EmitBattery(p) ==
    /\ OnBattery(p)
    /\ dispatched' = Logged("battery_status",
                            /\ ShouldUpdate(last_update, "battery", NoInterval, now).ok
                            /\ BatteryRaises(p))
    /\ EmitFrame

\* a broadcast message is handled as it arrives
Broadcast(msg) ==
    /\ OnBroadcast(msg)
    /\ UNCHANGED queueVars

\* at most MaxEvents broadcast messages arrive through the inbox
MaxEvents == 3

\* the messages that arrive through the inbox
QueueData ==
    {[name |-> "lora_state", payload |-> p] : p \in LoraPayloads}
    \cup {[name |-> "reboot", payload |-> [connected |-> TRUE]]}

\* the transport receives a broadcast message and creates the task that will
\* run on_broadcast for it
Receive(msg) ==
    /\ Connected
    /\ Len(arrived) < MaxEvents
    /\ inbox' = Append(inbox, msg)
    /\ arrived' = Append(arrived, msg)
    /\ NoPublish
    /\ UNCHANGED <<ws_data, last_update, throttle_interval, satellite_trails, now, setup_pc,
                   pollVars, heldVars, ret, wsVars, callbacks, dispatched, set_call, applied,
                   flow>>

\* mutant: the event loop runs the newest task first
NextTask_Newest(q) == Len(q)

\* the event loop runs its ready tasks in the order of their creation
NextTask(q) == 1

\* the event loop runs the next on_broadcast task: it has no await, so the
\* callbacks and the publish are over when it ends
Deliver ==
    /\ inbox # << >>
    /\ LET i == NextTask(inbox) IN
        /\ OnBroadcast(inbox[i])
        /\ inbox' = SubSeq(inbox, 1, i - 1) \o SubSeq(inbox, i + 1, Len(inbox))
    /\ applied' = IF pubs' = 1 THEN Append(applied, data'["lora_connected"]) ELSE applied
    /\ UNCHANGED arrived

----------------------------------------------------------------------------
(* Settings entities: switch, number and select *)

\* the methods EmlidAPIClient defines
ApiClientMethods ==
    {"_get", "get_info", "get_battery", "get_configuration", "get_wifi_status",
     "get_bluetooth_status", "get_lora_state", "get_lora_rssi"}

\* the method of api_client that the description of a settings entity calls
SettingsMethod ==
    [night_mode |-> "set_device_config",
     data_logging |-> "set_logging_state",
     gnss_gps |-> "set_positioning_settings",
     antenna_height |-> "set_device_config",
     update_rate |-> "set_positioning_settings",
     positioning_mode |-> "set_positioning_settings"]

\* api_client.<method>(...) with a device that would answer the request with
\* device: a method the client does not define raises AttributeError
ApiCall(method, device) ==
    IF method \notin ApiClientMethods THEN "AttributeError"
    ELSE IF device = "ok" THEN "ok" ELSE "EmlidAPIError"

\* the calls of the description's function in the try block: one
SettingsAttempts(outcome) == <<outcome>>

\* mutant: the refresh is requested whatever the call did
RefreshAfterSetting_Always(outcome) == TRUE

\* async_request_refresh() follows the call in the try block
RefreshAfterSetting(outcome) == outcome = "ok"

NoSetCall == [entity |-> "none", attempts |-> << >>, result |-> "none"]

\* no config flow has been started: errors, data and serial_number as
\* EmlidConfigFlow.__init__ sets them
NoFlow ==
    [step |-> "none", errors |-> EmptyMap, data |-> EmptyMap, serial_number |-> "",
     result |-> "none", submits |-> 0]

----------------------------------------------------------------------------
(* The config flow: user and reconfigure steps *)

\* a flow takes at most MaxSubmits submissions of its form
MaxSubmits == 3

DEFAULT_UPDATE_RATE == 1

\* what the user submits: a host, with or without an update rate
UserInputs ==
    {[host |-> h] : h \in {"reach.local", "192.168.1.20"}}
    \cup {[host |-> h, update_rate |-> 5] : h \in {"reach.local", "192.168.1.20"}}

\* what get_info() of the host returns: a device with a serial number, or
\* an answer without device
InfoAnswers ==
    {[device |-> [serial_number |-> "SN-A"]], [device |-> [serial_number |-> "SN-B"]], EmptyMap}

\* the serial numbers of the entries that exist
ConfiguredSerials == {"SN-B"}

\* validate_config: get_info() returns info or raises; serial_number is set
\* on success, errors on failure
ValidateConfig(f, outcome, info) ==
    IF outcome = "ok"
    THEN [f EXCEPT !.serial_number =
                      Get(Get(info, "device", EmptyMap), "serial_number", "Unknown")]
    ELSE IF outcome = "EmlidAPIError"
    THEN [f EXCEPT !.errors = [base |-> "cannot_connect"]]
    ELSE [f EXCEPT !.errors = [base |-> "unknown"]]

\* self.data after the two assignments of a step with user_input
FlowData(user_input) ==
    [host |-> user_input.host,
     update_rate |-> Get(user_input, "update_rate", DEFAULT_UPDATE_RATE)]

\* what a step of the config flow leaves alone
FlowFrame ==
    /\ NoPublish
    /\ UNCHANGED <<ws_data, last_update, throttle_interval, satellite_trails, now, setup_pc,
                   pollVars, heldVars, ret, wsVars, callbacks, dispatched, set_call, queueVars>>

\* async_step_user or async_step_reconfigure without user_input: the form
\* is shown with self.errors
FlowStart(step) ==
    /\ flow.step = "none"
    /\ flow' = [flow EXCEPT !.step = step, !.result = "form"]
    /\ FlowFrame

\* async_step_user with user_input, on the flow whose form is shown
SubmitUser(user_input, outcome, info) ==
    /\ flow.step = "user"
    /\ flow.result = "form"
    /\ flow.submits < MaxSubmits
    /\ LET f == ValidateConfig([flow EXCEPT !.data = FlowData(user_input),
                                            !.submits = flow.submits + 1],
                               outcome, info)
       IN flow' = [f EXCEPT !.result =
                       IF f.errors = EmptyMap
                       THEN (IF f.serial_number \in ConfiguredSerials
                             THEN "abort_already_configured" ELSE "create_entry")
                       ELSE "form"]
    /\ FlowFrame

\* async_step_reconfigure with user_input, on the flow whose form is shown;
\* user_input[CONF_UPDATE_RATE] raises KeyError when the rate was left out
SubmitReconfigure(user_input, outcome, info) ==
    /\ flow.step = "reconfigure"
    /\ flow.result = "form"
    /\ flow.submits < MaxSubmits
    /\ LET f == ValidateConfig([flow EXCEPT !.data = FlowData(user_input),
                                            !.submits = flow.submits + 1],
                               outcome, info)
       IN flow' = [f EXCEPT !.result =
                       IF f.errors = EmptyMap
                       THEN (IF "update_rate" \in DOMAIN user_input
                             THEN "update_reload_and_abort" ELSE "raised")
                       ELSE "form"]
    /\ FlowFrame

----------------------------------------------------------------------------
\* async_turn_on / async_turn_off / async_set_native_value / async_select_option
\* of a loaded entity while no poll cycle is in flight
SettingsCall(entity, device) ==
    /\ Listening
    /\ poll_pc = "idle"
    /\ LET outcome == ApiCall(SettingsMethod[entity], device) IN
        /\ set_call' = [entity |-> entity,
                        attempts |-> SettingsAttempts(outcome),
                        result |-> IF outcome = "ok" THEN "returned" ELSE "raised"]
        /\ IF RefreshAfterSetting(outcome)
           THEN AsyncRefreshStart
           ELSE /\ NoPublish
                /\ UNCHANGED pollVars
    /\ UNCHANGED <<ws_data, last_update, throttle_interval, satellite_trails, now, setup_pc,
                   heldVars, ret, wsVars, callbacks, dispatched, queueVars, flow>>

----------------------------------------------------------------------------
(* The clock *)

\* d seconds pass, within the horizon a specification explores
Advance(d, horizon) ==
    /\ now + d <= horizon
    /\ now' = now + d
    /\ pubs' = 0
    /\ UNCHANGED <<data, last_update_success, refresh_at, last_op, ws_data,
                   last_update, throttle_interval, satellite_trails, setup_pc, pollVars,
                   heldVars, ret, wsVars, apiVars>>

\* the clock moves on to a later time of a specification's sample times; a
\* due refresh timer fires before time moves past it, and a cycle in flight
\* ends within the fetch timeout, before the clock's next sample
AdvanceTo(times) ==
    /\ poll_pc = "idle"
    /\ \E t \in times :
        /\ t > now
        /\ refresh_at = NoTimer \/ t <= refresh_at
        /\ now' = t
    /\ pubs' = 0
    /\ UNCHANGED <<data, last_update_success, refresh_at, last_op, ws_data,
                   last_update, throttle_interval, satellite_trails, setup_pc, pollVars,
                   heldVars, ret, wsVars, apiVars>>

----------------------------------------------------------------------------
(* The coordinator: poll cycles and push events of the first seconds *)

\* the clients and the coordinator as constructed with update_rate =
\* 1 / interval, async_setup_entry at position pc
InitState(interval, pc) ==
    /\ data = EmptyMap
    /\ last_update_success = TRUE
    /\ refresh_at = NoTimer
    /\ pubs = 0
    /\ last_op = "none"
    /\ ws_data = EmptyMap
    /\ last_update = EmptyMap
    /\ throttle_interval = interval
    /\ satellite_trails = EmptyMap
    /\ now = 0
    /\ setup_pc = pc
    /\ poll_pc = "idle"
    /\ poll_rev = 1
    /\ poll_prev_success = TRUE
    /\ tasks = NoTasks
    /\ held = EmptyMap
    /\ held_value = EmptyMap
    /\ ret = [key |-> "none", ok |-> FALSE]
    /\ ws_connected = FALSE
    /\ sio = << >>
    /\ ws_call = [op |-> "none", result |-> "none"]
    /\ callbacks = CoordinatorCallbacks
    /\ dispatched = NoDispatch
    /\ set_call = NoSetCall
    /\ inbox = << >>
    /\ arrived = << >>
    /\ applied = << >>
    /\ flow = NoFlow

\* the state after the coordinator is constructed, get_info() having returned
InitWith(interval) == InitState(interval, "connect")

Init == InitWith(ThrottleSeconds)

Next ==
    \/ SetupConnectOk
    \/ SetupConnectFail
    \/ SetupForward
    \/ RequestRefresh
    \/ \E c \in PollChannels : PollTaskOk(c)
    \/ \E c \in PollChannels : PollTaskFail(c)
    \/ PollReturn
    \/ \E p \in BatteryPayloads : HandleBattery(p)
    \/ \E p \in PowerPayloads : HandlePowerSupply(p)
    \/ Advance(1, CoreHorizon)

Spec == Init /\ [][Next]_vars

----------------------------------------------------------------------------
(* The refresh timer: poll cycles and unthrottled push events over minutes *)

SchedTimes ==
    {k * REST_UPDATE_INTERVAL + d : k \in 0..SchedCycles, d \in {0, 1, REST_UPDATE_INTERVAL - 1}}

NextSched ==
    \/ SetupConnectOk
    \/ SetupConnectFail
    \/ SetupForward
    \/ TimerFire
    \/ \E c \in PollChannels : PollTaskOk(c)
    \/ \E c \in PollChannels : PollTaskFail(c)
    \/ PollReturn
    \/ \E p \in LoraPayloads : HandleLoraState(p)
    \/ AdvanceTo(SchedTimes)

SpecSched == Init /\ [][NextSched]_vars

----------------------------------------------------------------------------
(* Satellite observations, the trails and a subscriber over minutes *)

ObsTimes == {k * REST_UPDATE_INTERVAL : k \in 1..ObsCycles}

\* the order in which the fetches are created
FetchOrder == <<"device_info", "configuration", "wifi_status", "bluetooth_status", "lora_rssi">>

\* the fetches created before c have returned: the responses arrive in order
InOrder(c) ==
    \A i, j \in 1..Len(FetchOrder) : (FetchOrder[j] = c /\ i < j) => tasks[FetchOrder[i]] = "ok"

\* every poll cycle succeeds, its responses arriving in order
NextObs ==
    \/ SetupConnectOk
    \/ SetupForward
    \/ TimerFire
    \/ \E c \in PollChannels : InOrder(c) /\ PollTaskOk(c)
    \/ PollReturn
    \/ \E p \in ObsPayloads : HandleObservations(p)
    \/ SubscriberRead
    \/ AdvanceTo(ObsTimes)

SpecObs == Init /\ [][NextObs]_vars

----------------------------------------------------------------------------
(* The TrailBuffer over twenty minutes: one observations event a minute *)

TrailTimes == {k * REST_UPDATE_INTERVAL : k \in 1..(2 * TrailCycles)}

\* the clock moves on to the next sample time
Tick(times) ==
    /\ \E t \in times : t > now
    /\ AdvanceTo({CHOOSE t \in times : t > now /\ \A u \in times : u > now => t <= u})

\* the device's observations event of the current minute is still to come
ObsDue ==
    /\ now % TrailSeconds = 0
    /\ ~("satellite_trails" \in DOMAIN last_update /\ last_update["satellite_trails"] = now)

\* the device sends one observations event at every full minute, ahead of a
\* refresh timer due at the same instant; every poll cycle succeeds, its
\* responses arriving in order
NextTrail ==
    \/ SetupConnectOk
    \/ SetupForward
    \/ ~ObsDue /\ TimerFire
    \/ \E c \in PollChannels : InOrder(c) /\ PollTaskOk(c)
    \/ PollReturn
    \/ \E p \in ObsPayloads : ObsDue /\ HandleObservations(p)
    \/ ~ObsDue /\ Tick(TrailTimes)

SpecTrail == Init /\ [][NextTrail]_vars

----------------------------------------------------------------------------
(* Setup, the connection and teardown *)

\* async_setup_entry is entered
InitSetup == InitState(ThrottleSeconds, "validate")

\* the first poll succeeds, its responses arriving in order
NextWs ==
    \/ \E outcome \in {"ok", "error"} : SetupInfo(outcome)
    \/ SetupConnectOk
    \/ SetupConnectFail
    \/ \E c \in PollChannels : InOrder(c) /\ PollTaskOk(c)
    \/ PollReturn
    \/ SetupForward
    \/ SetupUnload
    \/ \E i \in 1..MaxClients : TransportDrop(i)
    \/ \E i \in 1..MaxClients : TransportReconnect(i)
    \/ \E outcome \in {"ok", "error"} : ConnectCall(outcome)
    \/ DisconnectCall
    \/ \E p \in LoraPayloads : HandleLoraState(p)

SpecWs == InitSetup /\ [][NextWs]_vars

\* the transport's retry loop keeps trying while the device is reachable
SpecWsFair ==
    SpecWs /\ \A i \in 1..MaxClients : WF_vars(TransportReconnect(i))

----------------------------------------------------------------------------
(* The throttle gate alone, for the update rates 1.0, 0.5 and 0.2 Hz *)

UpdateIntervals == {1, 2, 5}

\* the three calls the handlers make
ThrottleCalls ==
    {<<"navigation", NoInterval>>, <<"battery", NoInterval>>, <<"satellite_trails", TrailSeconds>>}

ThrottleTimes == (1..ThrottleHorizon) \cup ((TrailSeconds - 1)..(TrailSeconds + 1))

InitThrottle == \E interval \in UpdateIntervals : InitWith(interval)

NextThrottle ==
    \/ \E call \in ThrottleCalls : ThrottleCall(call[1], call[2])
    \/ AdvanceTo(ThrottleTimes)

SpecThrottle == InitThrottle /\ [][NextThrottle]_vars

----------------------------------------------------------------------------
(* Event dispatch while the entry is set up *)

\* every fetch of the first refresh returns, in order; callbacks are added to
\* the lora_state list and broadcast messages arrive while the transport is
\* connected
NextDispatch ==
    \/ SetupConnectOk
    \/ SetupForward
    \/ \E c \in PollChannels : InOrder(c) /\ PollTaskOk(c)
    \/ PollReturn
    \/ \E cb \in ForeignCallbacks : Register("lora_state", cb)
    \/ \E msg \in BroadcastData : Broadcast(msg)

SpecDispatch == Init /\ [][NextDispatch]_vars

----------------------------------------------------------------------------
(* Settings calls of the loaded entry *)

\* what the device would answer to a settings request
DeviceAnswers == {"ok", "error"}

NextSettings ==
    \/ SetupConnectOk
    \/ SetupForward
    \/ \E c \in PollChannels : InOrder(c) /\ PollTaskOk(c)
    \/ \E c \in PollChannels : PollTaskFail(c)
    \/ PollReturn
    \/ RequestRefresh
    \/ \E p \in LoraPayloads : HandleLoraState(p)
    \/ \E e \in DOMAIN SettingsMethod, d \in DeviceAnswers : SettingsCall(e, d)

SpecSettings == Init /\ [][NextSettings]_vars

----------------------------------------------------------------------------
(* Observations of satellites of every constellation, and of none *)

\* one satellite per known prefix, a second GPS satellite, satellites with
\* the prefixes X and g, and one without satellite_index
SatOf(id) == [satellite_index |-> id, azimuth |-> 90, elevation |-> 30]
SatG07 == SatOf(<<"G", "0", "7">>)
SatE03 == SatOf(<<"E", "0", "3">>)
SatC04 == SatOf(<<"C", "0", "4">>)
SatJ05 == SatOf(<<"J", "0", "5">>)
SatS06 == SatOf(<<"S", "0", "6">>)
SatX12 == SatOf(<<"X", "1", "2">>)
Satg07 == SatOf(<<"g", "0", "7">>)
SatNoId == [azimuth |-> 10, elevation |-> 80]

PartitionSats == {SatG01, SatR02, SatG07, SatE03, SatC04, SatJ05, SatS06, SatX12, Satg07, SatNoId}

\* rover lists: empty, each satellite alone, and mixed lists
PartitionRovers ==
    {<< >>}
    \cup {<<s>> : s \in PartitionSats}
    \cup {<<SatX12, SatG01>>,
          <<SatG01, SatX12, SatG07>>,
          <<SatS06, SatJ05, SatC04, SatE03, SatR02, SatG01>>,
          <<SatG01, SatR02, SatNoId, SatE03, SatX12, SatC04, Satg07, SatJ05, SatS06, SatG07>>}

PartitionPayloads == {[satellites |-> [rover |-> r]] : r \in PartitionRovers}

\* the first refresh succeeds, its responses arriving in order, and
\* observations events arrive within the first second
NextPartition ==
    \/ SetupConnectOk
    \/ SetupForward
    \/ \E c \in PollChannels : InOrder(c) /\ PollTaskOk(c)
    \/ PollReturn
    \/ \E p \in PartitionPayloads : HandleObservations(p)

SpecPartition == Init /\ [][NextPartition]_vars

----------------------------------------------------------------------------
(* Navigation and battery events and poll cycles over a few seconds *)

\* the push specification explores the first PushHorizon seconds
PushHorizon == 2

\* every poll cycle succeeds, its responses arriving in order; the events
\* arrive and the clock moves between the poll cycles
NextPush ==
    \/ SetupConnectOk
    \/ SetupForward
    \/ RequestRefresh
    \/ \E c \in PollChannels : InOrder(c) /\ PollTaskOk(c)
    \/ PollReturn
    \/ \E p \in NavPayloads : poll_pc = "idle" /\ HandleNavigation(p)
    \/ \E p \in BatteryPayloads : poll_pc = "idle" /\ HandleBattery(p)
    \/ poll_pc = "idle" /\ Advance(1, PushHorizon)

SpecPush == Init /\ [][NextPush]_vars

----------------------------------------------------------------------------
(* The three throttled keys side by side *)

\* the gate specification explores the first GateHorizon seconds
GateHorizon == 2

\* the observations events of the gate specification
GateObsPayloads == { [satellites |-> [rover |-> <<SatG01>>]], EmptyMap }

\* the first refresh succeeds, its responses arriving in order; navigation,
\* battery and observations events arrive once it is over
NextGate ==
    \/ SetupConnectOk
    \/ SetupForward
    \/ \E c \in PollChannels : InOrder(c) /\ PollTaskOk(c)
    \/ PollReturn
    \/ \E p \in NavPayloads : poll_pc = "idle" /\ HandleNavigation(p)
    \/ \E p \in BatteryPayloads : poll_pc = "idle" /\ HandleBattery(p)
    \/ \E p \in GateObsPayloads : poll_pc = "idle" /\ HandleObservations(p)
    \/ poll_pc = "idle" /\ Advance(1, GateHorizon)

SpecGate == Init /\ [][NextGate]_vars

----------------------------------------------------------------------------
(* A burst of push events of every kind within the first second *)

\* the first refresh succeeds, its responses arriving in order; events of
\* all seven kinds arrive once it is over, and the clock stays at 0
NextBurst ==
    \/ SetupConnectOk
    \/ SetupForward
    \/ \E c \in PollChannels : InOrder(c) /\ PollTaskOk(c)
    \/ PollReturn
    \/ \E p \in NavPayloads : poll_pc = "idle" /\ HandleNavigation(p)
    \/ \E p \in BatteryPayloads : poll_pc = "idle" /\ HandleBattery(p)
    \/ \E p \in LoraPayloads : poll_pc = "idle" /\ HandleLoraState(p)
    \/ \E p \in PowerPayloads : poll_pc = "idle" /\ HandlePowerSupply(p)
    \/ \E p \in StreamPayloads : poll_pc = "idle" /\ HandleStreamStatus(p)
    \/ \E p \in LogPayloads : poll_pc = "idle" /\ HandleActiveLogs(p)
    \/ \E p \in GateObsPayloads : poll_pc = "idle" /\ HandleObservations(p)

SpecBurst == Init /\ [][NextBurst]_vars

----------------------------------------------------------------------------
(* Observations over minutes, for the update rates 1.0, 0.5 and 0.2 Hz *)

\* every poll cycle succeeds, its responses arriving in order
NextCadence ==
    \/ SetupConnectOk
    \/ SetupForward
    \/ TimerFire
    \/ \E c \in PollChannels : InOrder(c) /\ PollTaskOk(c)
    \/ PollReturn
    \/ \E p \in ObsPayloads : HandleObservations(p)
    \/ AdvanceTo(ObsTimes)

SpecCadence == InitThrottle /\ [][NextCadence]_vars

----------------------------------------------------------------------------
(* Push events of every kind and poll cycles within the first second *)

\* the channels in the order in which the device sends their first events
FrameOrder ==
    <<"navigation", "battery", "lora_connected", "power_usb_connected",
      "correction_input_state", "logging_active", "satellite_observations">>

\* the channels that come before channel in that order have a value
Ready(channel) ==
    \A i, j \in 1..Len(FrameOrder) :
        (FrameOrder[j] = channel /\ i < j) => FrameOrder[i] \in DOMAIN ws_data

\* every poll cycle succeeds, its responses arriving in order; events of all
\* seven kinds arrive between the poll cycles, the first of each kind in the
\* order of FrameOrder; a further refresh is requested once every push
\* channel has a value, and the clock stays at 0
NextFrame ==
    \/ SetupConnectOk
    \/ SetupForward
    \/ PushChannels \subseteq DOMAIN ws_data /\ RequestRefresh
    \/ \E c \in PollChannels : InOrder(c) /\ PollTaskOk(c)
    \/ PollReturn
    \/ \E p \in NavPayloads : poll_pc = "idle" /\ HandleNavigation(p)
    \/ \E p \in BatteryPayloads :
          poll_pc = "idle" /\ Ready("battery") /\ HandleBattery(p)
    \/ \E p \in LoraPayloads :
          poll_pc = "idle" /\ Ready("lora_connected") /\ HandleLoraState(p)
    \/ \E p \in PowerPayloads :
          poll_pc = "idle" /\ Ready("power_usb_connected") /\ HandlePowerSupply(p)
    \/ \E p \in StreamPayloads :
          poll_pc = "idle" /\ Ready("correction_input_state") /\ HandleStreamStatus(p)
    \/ \E p \in LogPayloads :
          poll_pc = "idle" /\ Ready("logging_active") /\ HandleActiveLogs(p)
    \/ \E p \in GateObsPayloads :
          poll_pc = "idle" /\ Ready("satellite_observations") /\ HandleObservations(p)

SpecFrame == Init /\ [][NextFrame]_vars

----------------------------------------------------------------------------
(* Broadcast messages queued by the event loop *)

\* the first refresh succeeds, its responses arriving in order, while
\* messages arrive and their tasks run
NextQueue ==
    \/ SetupConnectOk
    \/ SetupForward
    \/ \E c \in PollChannels : InOrder(c) /\ PollTaskOk(c)
    \/ PollReturn
    \/ \E msg \in QueueData : Receive(msg)
    \/ Deliver

SpecQueue == Init /\ [][NextQueue]_vars

----------------------------------------------------------------------------
(* Push events whose handler raises *)

\* the fault specification explores the first FaultHorizon seconds
FaultHorizon == 1

\* navigation events of the fault specification
FaultNavPayloads ==
    {[solution |-> "float"], [rover_position |-> [accuracy |-> [e |-> 3]]]}
    \cup MalformedNavPayloads

\* the first refresh succeeds, its responses arriving in order; well-formed
\* and malformed events arrive once it is over
NextFault ==
    \/ SetupConnectOk
    \/ SetupForward
    \/ \E c \in PollChannels : InOrder(c) /\ PollTaskOk(c)
    \/ PollReturn
    \/ \E p \in FaultNavPayloads : poll_pc = "idle" /\ EmitNavigation(p)
    \/ \E p \in BatteryPayloads \cup {NonDict} : poll_pc = "idle" /\ EmitBattery(p)
    \/ \E p \in LoraPayloads \cup {NonDict} :
           poll_pc = "idle" /\ Broadcast([name |-> "lora_state", payload |-> p])
    \/ poll_pc = "idle" /\ Advance(1, FaultHorizon)

SpecFault == Init /\ [][NextFault]_vars

----------------------------------------------------------------------------
(* connect() at any time: the transport clients of one WebSocket client *)

\* as NextWs, with connect() also called while a transport client retries
NextClients ==
    \/ \E outcome \in {"ok", "error"} : SetupInfo(outcome)
    \/ SetupConnectOk
    \/ SetupConnectFail
    \/ \E c \in PollChannels : InOrder(c) /\ PollTaskOk(c)
    \/ PollReturn
    \/ SetupForward
    \/ SetupUnload
    \/ \E i \in 1..MaxClients : TransportDrop(i)
    \/ \E i \in 1..MaxClients : TransportReconnect(i)
    \/ \E outcome \in {"ok", "error"} : ConnectAgain(outcome)
    \/ DisconnectCall
    \/ \E p \in LoraPayloads : HandleLoraState(p)

SpecClients == InitSetup /\ [][NextClients]_vars

----------------------------------------------------------------------------
(* One config flow: the form is shown and submitted *)

ValidationOutcomes == {"ok", "EmlidAPIError", "Exception"}

NextFlow ==
    \/ \E step \in {"user", "reconfigure"} : FlowStart(step)
    \/ \E user_input \in UserInputs, outcome \in ValidationOutcomes, info \in InfoAnswers :
           SubmitUser(user_input, outcome, info)
    \/ \E user_input \in UserInputs, outcome \in ValidationOutcomes, info \in InfoAnswers :
           SubmitReconfigure(user_input, outcome, info)

SpecFlow == Init /\ [][NextFlow]_vars

----------------------------------------------------------------------------
(* Properties of the merge path, checked under Spec *)

PollPart(d) == Restrict(d, PollChannels)
PushPart(d) == Restrict(d, PushChannels)

\* the last finished poll cycle failed on fetch c
LastPollFailedOn(c) == poll_pc = "idle" /\ tasks[c] = "error"
LastPollFailed == \E c \in PollChannels : LastPollFailedOn(c)

\* C1: in every published UnifiedState each channel the push path has written
\* carries the push value (the push cache's), whether the state was published
\* by a push event or by a successful poll.
C1_PushPrecedence ==
    \A k \in DOMAIN ws_data : k \in DOMAIN data /\ data[k] = ws_data[k]

\* a successful poll was applied last, over a state holding a pushed battery value
C1_Witness ==
    /\ last_op = "poll"
    /\ "battery" \in DOMAIN ws_data
    /\ "battery" \in DOMAIN data
    /\ "configuration" \in DOMAIN data

\* C2: a poll cycle in which a fetch fails changes none of the five poll
\* channels of UnifiedState, those whose fetch had returned included.
C2_PollAllOrNothing ==
    [][\A c \in PollChannels : PollTaskFail(c) =>
          \A k \in PollChannels :
              /\ (k \in DOMAIN data') = (k \in DOMAIN data)
              /\ k \in DOMAIN data => data'[k] = data[k]]_vars

\* a cycle failed on lora_rssi after the four other fetches had returned,
\* and the snapshot of an earlier cycle is still in UnifiedState
C2_Witness ==
    /\ LastPollFailedOn("lora_rssi")
    /\ \A k \in PollChannels \ {"lora_rssi"} : tasks[k] = "ok"
    /\ last_op = "poll_failed"
    /\ "configuration" \in DOMAIN data
    /\ data["configuration"] = [rev |-> 1]

\* C3: the step that ends a failed poll cycle leaves UnifiedState equal to its
\* value before and sets the last-update-succeeded flag to false.
C3_FailedPollRetainsState ==
    [][\A c \in PollChannels : PollTaskFail(c) =>
          data' = data /\ last_update_success' = FALSE]_vars

\* a cycle has just failed over a non-empty UnifiedState
C3_Witness ==
    /\ LastPollFailed
    /\ last_op = "poll_failed"
    /\ ~last_update_success
    /\ data # EmptyMap

\* C4: a cycle that fails on the configuration fetch leaves the configuration
\* channel as it was and marks the failure, and a battery event the throttle
\* gate accepts while a cycle is in flight or after a cycle failed on the
\* configuration fetch sets the battery channel to the event's value, leaves
\* the configuration channel as it was and is published.
C4_PollFailureLeavesPushWorking ==
    [][/\ PollTaskFail("configuration") =>
            /\ ("configuration" \in DOMAIN data') = ("configuration" \in DOMAIN data)
            /\ "configuration" \in DOMAIN data => data'["configuration"] = data["configuration"]
            /\ ~last_update_success'
       /\ \A p \in BatteryPayloads :
            (/\ HandleBattery(p)
             /\ ShouldUpdate(last_update, "battery", NoInterval, now).ok
             /\ (poll_pc = "fetching" \/ LastPollFailedOn("configuration"))) =>
                /\ "battery" \in DOMAIN data'
                /\ data'["battery"] = BatteryData(p)
                /\ ("configuration" \in DOMAIN data') = ("configuration" \in DOMAIN data)
                /\ "configuration" \in DOMAIN data => data'["configuration"] = data["configuration"]
                /\ pubs' = 1]_vars

\* the configuration fetch failed a cycle, configuration is absent, and the
\* last apply is a battery event published after that failure
C4_Witness ==
    /\ LastPollFailedOn("configuration")
    /\ "configuration" \notin DOMAIN data
    /\ last_op = "push"
    /\ pubs = 1
    /\ DOMAIN ws_data = {"battery"}
    /\ data["battery"] = ws_data["battery"]

\* C35: a push event accepted while a poll cycle is in flight is in the
\* push cache, and the step that ends the cycle, with success or failure,
\* leaves every channel of the push cache with the cache's value in
\* UnifiedState.
C35_PushSurvivesPoll ==
    [][/\ \A p \in BatteryPayloads :
            (/\ HandleBattery(p)
             /\ poll_pc = "fetching"
             /\ ShouldUpdate(last_update, "battery", NoInterval, now).ok)
            => ws_data'["battery"] = BatteryData(p)
       /\ \A p \in PowerPayloads :
            (HandlePowerSupply(p) /\ poll_pc = "fetching")
            => ws_data' = PowerSupplyWrite(ws_data, p)
       /\ (PollReturn \/ \E c \in PollChannels : PollTaskFail(c))
            => \A k \in DOMAIN ws_data : k \in DOMAIN data' /\ data'[k] = ws_data[k]
      ]_vars

\* the first poll cycle has just ended with success, and the state it
\* published holds a battery and a power value, which can only have arrived
\* while it was in flight
C35_Witness ==
    /\ setup_pc = "forward"
    /\ last_op = "poll"
    /\ pubs = 1
    /\ "battery" \in DOMAIN data
    /\ data["battery"].state_of_charge = 50
    /\ "power_usb_connected" \in DOMAIN data
    /\ data["power_usb_connected"]
    /\ "configuration" \in DOMAIN data

\* C36: when async_setup_entry has ended without success (get_info failed,
\* the WebSocket did not connect, or the first refresh failed), the WebSocket
\* is closed, and from then on no handler writes the push cache and nothing
\* is published.
C36_FailedSetupClosed ==
    [][/\ setup_pc' \in {"info_failed", "connect_failed", "refresh_failed"}
            => (~ws_connected' /\ \A i \in 1..Len(sio') : sio'[i] \in {"closed", "failed"})
       /\ setup_pc \in {"info_failed", "connect_failed", "refresh_failed"}
            => (ws_data' = ws_data /\ data' = data /\ pubs' = 0)
      ]_vars

\* EmlidSensor.available and its siblings: last_update_success and the
\* description's available_fn (`"<channel>" in data`)
Available(k) == last_update_success /\ k \in DOMAIN data

\* C5: once the entities are set up, while the last poll cycle has failed the
\* entities of poll-derived channels are unavailable and the entities of the
\* push-derived channels present in UnifiedState are available.
C5_AvailabilityPerPath ==
    (Listening /\ LastPollFailed) =>
        /\ \A k \in PollChannels : ~Available(k)
        /\ \A k \in PushChannels \cap DOMAIN data : Available(k)

\* C8: every state a subscriber can read holds the five poll channels of one
\* snapshot (or none of them) and the two power flags of one
\* power_supply_status event (or neither).
C8_ReadConsistent ==
    /\ \/ DOMAIN data \cap PollChannels = {}
       \/ \E r \in 1..MaxRev : PollPart(data) = RestData(r)
    /\ \/ DOMAIN data \cap {"power_usb_connected", "power_battery_present"} = {}
       \/ /\ {"power_usb_connected", "power_battery_present"} \subseteq DOMAIN data
          /\ \E p \in PowerPayloads :
                /\ data["power_usb_connected"] = Get(p, "usb_cable_status", FALSE)
                /\ data["power_battery_present"] = Get(p, "battery_status", FALSE)

\* a second snapshot and a power event have both been applied
C8_Witness ==
    /\ "power_usb_connected" \in DOMAIN data
    /\ "configuration" \in DOMAIN data
    /\ data["configuration"] = DeviceResp("configuration", 2)
    /\ poll_pc = "fetching"
    /\ poll_rev = 1
    /\ tasks["configuration"] = "ok"

\* C9: a successful poll applied right after a successful poll that fetched the
\* same snapshot, with no push event applied in between, leaves UnifiedState
\* equal.
C9_PollIdempotent ==
    [][(/\ PollReturn
        /\ last_op \in {"poll", "poll_same"}
        /\ PollPart(data) = RestData(poll_rev)) => data' = data]_vars

\* the same snapshot has been applied twice in a row, a second later
C9_Witness ==
    /\ last_op = "poll_same"
    /\ now > 0
    /\ ws_data # EmptyMap

\* C14: UnifiedState starts empty, and a channel becomes present or changes
\* value only in the step of a successful poll (the five poll channels, with
\* the values of the snapshot fetched) or of an accepted push event of the
\* channel's type (with the values the handler takes from the event).
C14_PresenceHasOrigin ==
    /\ data = EmptyMap
    /\ [][/\ DOMAIN data' \subseteq PollChannels \cup PushChannels
          /\ \A k \in DOMAIN data' :
                (k \notin DOMAIN data \/ data'[k] # data[k]) =>
                    \/ /\ k \in PollChannels
                       /\ PollReturn
                       /\ data'[k] = RestData(poll_rev)[k]
                    \/ /\ k = "battery"
                       /\ \E p \in BatteryPayloads :
                            /\ HandleBattery(p)
                            /\ ShouldUpdate(last_update, "battery", NoInterval, now).ok
                            /\ data'[k] = BatteryData(p)
                    \/ /\ k = "power_usb_connected"
                       /\ \E p \in PowerPayloads :
                            HandlePowerSupply(p) /\ data'[k] = Get(p, "usb_cable_status", FALSE)
                    \/ /\ k = "power_battery_present"
                       /\ \E p \in PowerPayloads :
                            HandlePowerSupply(p) /\ data'[k] = Get(p, "battery_status", FALSE)]_vars

\* channels of both paths are present, the poll channels from a second snapshot
C14_Witness ==
    /\ {"battery", "power_usb_connected", "power_battery_present"} \subseteq DOMAIN data
    /\ PollChannels \subseteq DOMAIN data
    /\ data["lora_rssi"] # 0 - 1

----------------------------------------------------------------------------
(* Properties of the refresh timer, checked under SpecSched *)

\* C6: a published push event does not postpone the scheduled poll: the time
\* of a scheduled refresh is the same after a lora_state event as before.
C6_PushDoesNotPostponePoll ==
    [][\A p \in LoraPayloads :
          (HandleLoraState(p) /\ refresh_at # NoTimer) => refresh_at' = refresh_at]_vars

----------------------------------------------------------------------------
(* Properties of publishing, checked under SpecObs *)

\* C7: a state handed to a subscriber is a copy: whatever is applied later,
\* the subscriber finds in it what it held when it was handed over, the
\* satellite trails inside satellite_observations included.
C7_PublishedStateIsCopy == Deref(held) = held_value

----------------------------------------------------------------------------
(* Properties of the TrailBuffer, checked under SpecTrail *)

\* the rover satellites of an observations payload, and their identifiers
Rover(p) == Get(Get(p, "satellites", EmptyMap), "rover", << >>)
RoverIds(p) == CurrentSatIds(Rover(p))

\* the rover satellite of payload p with identifier id
RoverSat(p, id) ==
    LET rover == Rover(p)
        i == CHOOSE i \in 1..Len(rover) : Get(rover[i], "satellite_index", << >>) = id
    IN rover[i]

\* an observations event whose trail refresh the 60 s gate allows
AllowedRefresh(p) ==
    /\ HandleObservations(p)
    /\ ShouldUpdate(last_update, "satellite_trails", TrailSeconds, now).ok

\* C11: in every reachable state every satellite identifier's trail has at
\* most 20 points.
C11_TrailLength ==
    \A id \in DOMAIN satellite_trails : Len(satellite_trails[id]) <= max_trail_length

\* a trail is full, after more than 20 refreshes
C11_Witness ==
    /\ G01 \in DOMAIN satellite_trails
    /\ Len(satellite_trails[G01]) = max_trail_length
    /\ now > max_trail_length * TrailSeconds

\* C12: eviction is first in, first out: an allowed refresh of an identifier
\* whose trail holds 20 points leaves the 2nd to 20th of them, in order,
\* followed by the new sample; so 21 consecutive refreshes leave the 2nd to
\* 21st samples, oldest first.
C12_TrailFifo ==
    [][\A p \in ObsPayloads : AllowedRefresh(p) =>
          \A id \in RoverIds(p) \cap DOMAIN satellite_trails :
              Len(satellite_trails[id]) = max_trail_length =>
                  satellite_trails'[id] =
                      Append(Tail(satellite_trails[id]), TrailPoint(RoverSat(p, id), now))]_vars

\* G01 was present in the 21 refreshes from 0:00 to 20:00: its trail is the
\* samples of 1:00 to 20:00, the sample of 0:00 dropped
C12_Witness ==
    /\ now = max_trail_length * TrailSeconds
    /\ G01 \in DOMAIN satellite_trails
    /\ Len(satellite_trails[G01]) = max_trail_length
    /\ \A i \in 1..max_trail_length : satellite_trails[G01][i].timestamp = i * TrailSeconds

\* C13 as stated: an allowed refresh with satellite set S2, a proper subset
\* of the set S1 that has trails, leaves no trail for S1 \ S2 and every
\* identifier of S2 with its prior trail followed by one new point.
C13_TrailHistoryPlusOne ==
    [][\A p \in ObsPayloads :
          (/\ AllowedRefresh(p)
           /\ RoverIds(p) \subseteq DOMAIN satellite_trails
           /\ RoverIds(p) # DOMAIN satellite_trails) =>
              /\ DOMAIN satellite_trails' = RoverIds(p)
              /\ \A id \in RoverIds(p) :
                    satellite_trails'[id] =
                        Append(satellite_trails[id], TrailPoint(RoverSat(p, id), now))]_vars

\* C13, amended: an allowed refresh with satellite set S2 leaves trails for
\* exactly the identifiers of S2: an identifier that had a trail has the last
\* 20 points of that trail followed by one new point, and an identifier that
\* had none is admitted with a one-point trail.
C13_TrailRefresh ==
    [][\A p \in ObsPayloads : AllowedRefresh(p) =>
          /\ DOMAIN satellite_trails' = RoverIds(p)
          /\ \A id \in RoverIds(p) :
                LET point == TrailPoint(RoverSat(p, id), now) IN
                IF id \in DOMAIN satellite_trails
                THEN LET grown == Append(satellite_trails[id], point) IN
                     satellite_trails'[id] =
                        IF Len(grown) > max_trail_length THEN Tail(grown) ELSE grown
                ELSE satellite_trails'[id] = <<point>>]_vars

\* R02 was dropped while G01 kept its history, and R02 has been admitted
\* again with a one-point trail
C13_Witness ==
    /\ G01 \in DOMAIN satellite_trails
    /\ R02 \in DOMAIN satellite_trails
    /\ Len(satellite_trails[G01]) = 4
    /\ Len(satellite_trails[R02]) = 1
    /\ satellite_trails[G01][1].timestamp = 0

----------------------------------------------------------------------------
(* Properties of setup, the connection and teardown, checked under SpecWs *)

\* a connect() or disconnect() call is made, from setup, teardown or elsewhere
ConnectStep == SetupConnectOk \/ SetupConnectFail \/ \E outcome \in {"ok", "error"} : ConnectCall(outcome)
DisconnectStep == SetupUnload \/ DisconnectCall

\* a push handler runs
HandlerStep == \E p \in LoraPayloads : HandleLoraState(p)

\* the supervisor is Closed: self.sio was disconnected by disconnect()
Closed == Len(sio) > 0 /\ sio[Len(sio)] = "closed" /\ ~ws_connected

\* C15: after the entry is torn down (and without connect() being called
\* again) no push handler runs and nothing is published.
C15_NoHandlerAfterTeardown ==
    [][(setup_pc = "unloaded" /\ Len(sio) = 1) => (~HandlerStep /\ pubs' = 0)]_vars

\* C16: connect() called while the flag is set creates no transport client,
\* opens no connection and leaves the client as it is.
C16_ConnectIdempotent ==
    [][\A outcome \in {"ok", "error"} :
          (ConnectCall(outcome) /\ ws_connected) =>
              /\ UNCHANGED <<ws_connected, sio>>
              /\ ws_call'.result = "noop"]_vars

\* connect() was called on the connected client of the loaded entry
C16_Witness ==
    /\ setup_pc = "loaded"
    /\ ws_call = [op |-> "connect", result |-> "noop"]
    /\ sio = <<"connected">>
    /\ ws_connected

\* C17: disconnect() called while connected closes self.sio and clears the
\* flag; called while the flag is clear it changes nothing of the client, so
\* a second call changes nothing.
C17_DisconnectIdempotent ==
    [][DisconnectStep =>
          IF ws_connected
          THEN /\ ~ws_connected'
               /\ sio' = [sio EXCEPT ![Len(sio)] = "closed"]
               /\ Closed'
          ELSE UNCHANGED <<ws_connected, sio>>]_vars

\* disconnect() was called a second time, after teardown had closed the stream
C17_Witness ==
    /\ setup_pc = "unloaded"
    /\ ws_call = [op |-> "disconnect", result |-> "noop"]
    /\ sio = <<"closed">>
    /\ ~ws_connected

\* C18: Closed is left by no step, and is entered only by a disconnect() call.
C18_ClosedTerminal ==
    [][/\ (Closed => Closed')
       /\ ((~Closed /\ Closed') => DisconnectStep)]_vars

\* C20: a failing get_info() or a failing WebSocket connect ends setup in
\* failure, and in a failed setup no refresh has run, nothing was published,
\* no timer is scheduled, no transport client is connected, and nothing
\* happens any more.
C20_SetupFailureFatal ==
    /\ [][/\ (SetupInfo("error") => setup_pc' = "info_failed")
           /\ (SetupConnectFail => setup_pc' = "connect_failed")
           /\ (setup_pc \in {"info_failed", "connect_failed"} => UNCHANGED vars)]_vars
    /\ [](setup_pc \in {"info_failed", "connect_failed"} =>
            /\ poll_pc = "idle"
            /\ tasks = NoTasks
            /\ data = EmptyMap
            /\ last_op = "none"
            /\ refresh_at = NoTimer
            /\ ~Connected
            /\ ~ws_connected)
    /\ [](setup_pc = "info_failed" => sio = << >>)

\* the WebSocket connect of setup failed
C20_Witness ==
    /\ setup_pc = "connect_failed"
    /\ sio = <<"failed">>
    /\ ws_call = [op |-> "connect", result |-> "error"]

----------------------------------------------------------------------------
(* Properties of the reconnecting transport, checked under SpecWsFair *)

\* C19: a drop clears the flag and puts the transport client in its retry
\* loop; the retry loop, not a connect() call, connects it again and sets the
\* flag; the flag is set exactly while a transport client is connected; and a
\* client in its retry loop is eventually connected again.
C19_AutoReconnect ==
    /\ [](ws_connected <=> Connected)
    /\ [][\A i \in 1..MaxClients :
            /\ (TransportDrop(i) => (~ws_connected' /\ sio'[i] = "retrying"))
            /\ (i <= Len(sio) /\ sio[i] = "retrying" /\ sio'[i] # "retrying") =>
                  (/\ sio'[i] = "connected"
                   /\ ws_connected'
                   /\ ~ConnectStep
                   /\ UNCHANGED ws_call)]_vars
    /\ \A i \in 1..MaxClients :
          (i <= Len(sio) /\ sio[i] = "retrying") ~>
              (i <= Len(sio) /\ sio[i] = "connected" /\ ws_connected)

\* the connection of the loaded entry has dropped and is being retried
C19_Witness ==
    /\ setup_pc = "loaded"
    /\ sio = <<"retrying">>
    /\ ~ws_connected
    /\ ws_call = [op |-> "connect", result |-> "opened"]

----------------------------------------------------------------------------
(* Properties of the throttle gate, checked under SpecThrottle *)

\* the interval a call is checked against: its own, else 1 / update_rate
MinInterval(call) == IF call[2] = NoInterval THEN throttle_interval ELSE call[2]

\* C10: the first call for a key is accepted and records now; a later call is
\* accepted iff now minus the key's last-accepted time is at least the
\* interval; an accepted call sets the key's last-accepted time to now, and a
\* rejected call leaves the throttle state as it was.
C10_ThrottleGate ==
    [][\A call \in ThrottleCalls :
          ThrottleCall(call[1], call[2]) =>
              LET key == call[1] IN
              /\ key \notin DOMAIN last_update => ret'.ok
              /\ key \in DOMAIN last_update =>
                    (ret'.ok <=> now - last_update[key] >= MinInterval(call))
              /\ ret'.ok =>
                    /\ DOMAIN last_update' = DOMAIN last_update \cup {key}
                    /\ last_update'[key] = now
                    /\ \A k \in DOMAIN last_update \ {key} : last_update'[k] = last_update[k]
              /\ ~ret'.ok => last_update' = last_update]_vars

\* a battery event one second before the 2 s interval has elapsed since the
\* last accepted one was rejected
C10_Witness ==
    /\ throttle_interval = 2
    /\ ret = [key |-> "battery", ok |-> FALSE]
    /\ "battery" \in DOMAIN last_update
    /\ now - last_update["battery"] = 1

----------------------------------------------------------------------------
(* Properties of event dispatch, checked under SpecDispatch *)

\* C21: a message whose event has no registered callback changes no state
\* and publishes nothing; when a callback raises, every callback of the
\* event's list is still called (none is skipped), the callback table and the
\* connection are as before, so that later messages are dispatched the same
\* way, and the coordinator's handler still publishes when it is not the one
\* that raised.
C21_DispatchIsolated ==
    [][\A msg \in BroadcastData :
          Broadcast(msg) =>
              LET cbs == IF Dispatches(msg) THEN Get(callbacks, msg.name, << >>) ELSE << >> IN
              /\ cbs = << >> =>
                    /\ dispatched'.outcomes = << >>
                    /\ data' = data /\ ws_data' = ws_data /\ pubs' = 0
                    /\ last_update_success' = last_update_success
                    /\ refresh_at' = refresh_at
              /\ Len(dispatched'.outcomes) = Len(cbs)
              /\ \A i \in 1..Len(cbs) :
                    dispatched'.outcomes[i] =
                        IF Raises(cbs[i], msg.payload) THEN "raised" ELSE "ran"
              /\ (\E i \in 1..Len(cbs) :
                      cbs[i] = "_handle_lora_state" /\ ~Raises(cbs[i], msg.payload))
                    => /\ pubs' = 1
                       /\ data'["lora_connected"] = Get(msg.payload, "connected", FALSE)
              /\ callbacks' = callbacks
              /\ sio' = sio /\ ws_connected' = ws_connected
              /\ Connected']_vars

\* after a message whose callback raised, a lora_state message went to three
\* callbacks: the coordinator's handler ran and published, the faulty callback
\* raised and the listener registered after it ran
C21_Witness ==
    /\ dispatched = [event |-> "lora_state", outcomes |-> <<"ran", "raised", "ran">>,
                     after_error |-> TRUE]
    /\ callbacks["lora_state"] = <<"_handle_lora_state", "faulty", "listener">>
    /\ pubs = 1
    /\ data["lora_connected"]
    /\ Connected

----------------------------------------------------------------------------
(* Properties of the settings entities, checked under SpecSettings *)

\* C22: a settings call that the device would accept returns to its caller,
\* and a coordinator refresh has been started by then.
C22_AcceptedSettingRefreshes ==
    [][\A e \in DOMAIN SettingsMethod :
          SettingsCall(e, "ok") =>
              /\ set_call'.result = "returned"
              /\ poll_pc' = "fetching"]_vars

\* C23: a settings call that fails raises to its caller after one attempt;
\* no refresh is started, the refresh timer stays as it was, and the published
\* state and the push cache are unchanged.
C23_FailedSettingSurfaces ==
    [][\A e \in DOMAIN SettingsMethod, d \in DeviceAnswers :
          (SettingsCall(e, d) /\ ApiCall(SettingsMethod[e], d) # "ok") =>
              /\ set_call'.result = "raised"
              /\ Len(set_call'.attempts) = 1
              /\ set_call'.attempts[1] # "ok"
              /\ poll_pc' = "idle"
              /\ tasks' = tasks
              /\ refresh_at' = refresh_at
              /\ data' = data
              /\ ws_data' = ws_data
              /\ last_update_success' = last_update_success
              /\ pubs' = 0]_vars

\* the night_mode switch of the loaded entry was turned on and the call
\* raised, with a polled state published and the refresh timer pending
C23_Witness ==
    /\ set_call = [entity |-> "night_mode", attempts |-> <<"AttributeError">>,
                   result |-> "raised"]
    /\ setup_pc = "loaded"
    /\ poll_pc = "idle"
    /\ refresh_at # NoTimer
    /\ PollChannels \subseteq DOMAIN data

----------------------------------------------------------------------------
(* Properties of constellation partitioning, checked under SpecPartition *)

\* the partition a first character selects
PrefixOf ==
    [GPS |-> "G", GLONASS |-> "R", Galileo |-> "E", BeiDou |-> "C", QZSS |-> "J", SBAS |-> "S"]

\* the partitions of by_constellation that hold sat
HomesOf(parts, sat) == {c \in DOMAIN parts : \E j \in 1..Len(parts[c]) : parts[c][j] = sat}

\* C24: the published rover list is the event's rover list; the partitions
\* are the six constellations; every member of a partition is in the rover
\* list; a satellite whose identifier starts with G, R, E, C, J or S is in
\* exactly the partition of that letter, as often as in the rover list, and a
\* satellite with another first character or without identifier is in none.
C24_ConstellationPartition ==
    [][\A p \in PartitionPayloads :
          HandleObservations(p) =>
              LET obs == data'["satellite_observations"]
                  rover == Rover(p)
                  parts == obs.by_constellation
              IN /\ obs.rover_satellites = rover
                 /\ DOMAIN parts = DOMAIN PrefixOf
                 /\ \A c \in DOMAIN parts : \A j \in 1..Len(parts[c]) :
                        \E i \in 1..Len(rover) : rover[i] = parts[c][j]
                 /\ \A i \in 1..Len(rover) :
                        LET id == Get(rover[i], "satellite_index", << >>)
                            known == {c \in DOMAIN PrefixOf : id # << >> /\ id[1] = PrefixOf[c]}
                        IN /\ HomesOf(parts, rover[i]) = known
                           /\ \A c \in known :
                                 Cardinality({j \in 1..Len(parts[c]) : parts[c][j] = rover[i]})
                                    = Cardinality({k \in 1..Len(rover) : rover[k] = rover[i]})]_vars

\* X12 and G01 were observed: both are in the published rover list, G01 is
\* the one GPS satellite and X12 is in no partition
C24_Witness ==
    /\ "satellite_observations" \in DOMAIN data
    /\ LET obs == data["satellite_observations"] IN
        /\ obs.rover_satellites = <<SatX12, SatG01>>
        /\ obs.by_constellation["GPS"] = <<SatG01>>
        /\ HomesOf(obs.by_constellation, SatX12) = {}
    /\ pubs = 1

----------------------------------------------------------------------------
(* Properties of navigation and battery events, checked under SpecPush *)

\* the east and north accuracy of a navigation event, 0 when missing
EastAccuracy(p) == Get(Get(Get(p, "rover_position", EmptyMap), "accuracy", EmptyMap), "e", 0)
NorthAccuracy(p) == Get(Get(Get(p, "rover_position", EmptyMap), "accuracy", EmptyMap), "n", 0)

\* the accuracy object of a navigation event has neither e nor n
NoAccuracy(p) ==
    LET accuracy == Get(Get(p, "rover_position", EmptyMap), "accuracy", EmptyMap) IN
    "e" \notin DOMAIN accuracy /\ "n" \notin DOMAIN accuracy

\* C25: the horizontal accuracy published for an accepted navigation event is
\* the non-negative number whose square is the sum of the squares of the
\* event's east and north accuracy (a missing one counting as 0): 5 for 3 and
\* 4, and 0 when both are missing.
C25_HorizontalAccuracy ==
    [][\A p \in NavPayloads :
          (HandleNavigation(p) /\ pubs' = 1) =>
              LET h == data'["navigation"].horizontal_accuracy
                  e == EastAccuracy(p)
                  n == NorthAccuracy(p)
              IN /\ h >= 0
                 /\ h * h = e * e + n * n
                 /\ (e = 3 /\ n = 4) => h = 5
                 /\ NoAccuracy(p) => h = 0]_vars

\* the event with east accuracy 3 and north accuracy 4 was published with
\* horizontal accuracy 5
C25_Witness ==
    /\ pubs = 1
    /\ last_op = "push"
    /\ "navigation" \in DOMAIN data
    /\ data["navigation"].horizontal_accuracy = 5
    /\ data["navigation"].vertical_accuracy = 6
    /\ data["navigation"].latitude = 47

----------------------------------------------------------------------------
(* Properties of the throttled handlers, checked under SpecGate *)

\* the gate rejects a check of key against interval now
Rejected(key, interval) ==
    /\ key \in DOMAIN last_update
    /\ now - last_update[key] < interval

\* the step leaves the last-accepted time of every key but key as it was
OtherKeysKept(key) ==
    /\ DOMAIN last_update' \subseteq DOMAIN last_update \cup {key}
    /\ \A k \in DOMAIN last_update \ {key} :
          k \in DOMAIN last_update' /\ last_update'[k] = last_update[k]

\* the program's state is what it was: nothing is kept of the event
NothingKept ==
    UNCHANGED <<data, last_update_success, refresh_at, last_op, ws_data, last_update,
                throttle_interval, satellite_trails, now, setup_pc, pollVars, heldVars, ret,
                wsVars, apiVars>>

\* C26: a navigation or battery event that the gate rejects leaves the
\* throttle state, the published state, the push cache and everything else
\* as they were and publishes nothing, so nothing of it can be applied later;
\* a rejected satellite_trails check leaves the throttle state and the trails
\* as they were; and a step of one key never changes the last-accepted time
\* of another key.
C26_RejectedCheckNoEffect ==
    [][/\ \A p \in NavPayloads :
            HandleNavigation(p) =>
                /\ OtherKeysKept("navigation")
                /\ Rejected("navigation", throttle_interval) => (NothingKept /\ pubs' = 0)
       /\ \A p \in BatteryPayloads :
            HandleBattery(p) =>
                /\ OtherKeysKept("battery")
                /\ Rejected("battery", throttle_interval) => (NothingKept /\ pubs' = 0)
       /\ \A p \in GateObsPayloads :
            HandleObservations(p) =>
                /\ OtherKeysKept("satellite_trails")
                /\ Rejected("satellite_trails", TrailSeconds) =>
                      (last_update' = last_update /\ satellite_trails' = satellite_trails)]_vars

\* one second after a navigation event, a battery event and a trail refresh
\* were accepted, a new battery event was accepted; a further event of any of
\* the three kinds is rejected in this state, and nothing is being published
C26_Witness ==
    /\ now = 1
    /\ last_update = [navigation |-> 0, battery |-> 1, satellite_trails |-> 0]
    /\ Rejected("battery", throttle_interval)
    /\ Rejected("satellite_trails", TrailSeconds)
    /\ ws_data["battery"].state_of_charge = 50
    /\ ws_data["navigation"].solution = "fix"
    /\ pubs = 0

----------------------------------------------------------------------------
(* Properties of a burst of push events, checked under SpecBurst *)

\* an event of the channel was accepted at second 0 and it still is second 0:
\* less than the throttle interval has passed since
Burst(channel) ==
    /\ now = 0
    /\ now < throttle_interval
    /\ channel \in DOMAIN ws_data

\* the event changes neither the published state nor the push cache and
\* publishes nothing
Quiet ==
    /\ data' = data
    /\ ws_data' = ws_data
    /\ pubs' = 0

\* C27: an event of any push channel that arrives within the throttle
\* interval of the last accepted event of its channel changes no state and
\* publishes nothing.
C27_EveryHandlerThrottled ==
    [][/\ \A p \in NavPayloads : (HandleNavigation(p) /\ Burst("navigation")) => Quiet
       /\ \A p \in BatteryPayloads : (HandleBattery(p) /\ Burst("battery")) => Quiet
       /\ \A p \in LoraPayloads : (HandleLoraState(p) /\ Burst("lora_connected")) => Quiet
       /\ \A p \in PowerPayloads :
             (HandlePowerSupply(p) /\ Burst("power_usb_connected")) => Quiet
       /\ \A p \in StreamPayloads :
             (HandleStreamStatus(p) /\ Burst("correction_input_state")) => Quiet
       /\ \A p \in LogPayloads : (HandleActiveLogs(p) /\ Burst("logging_active")) => Quiet
       /\ \A p \in GateObsPayloads :
             (HandleObservations(p) /\ Burst("satellite_observations")) => Quiet]_vars

----------------------------------------------------------------------------
(* Properties of the trail cadence, checked under SpecCadence *)

\* the identifiers of the rover satellites of a published state
PublishedRoverIds(d) == CurrentSatIds(d["satellite_observations"].rover_satellites)

\* the identifiers that have a trail in a published state, as its reader
\* finds them
PublishedTrailIds(d) == DOMAIN Deref(d)["satellite_observations"].satellite_trails

\* C28: whatever the update rate, an observations event that arrives less
\* than 60 s after the last allowed trail refresh leaves every trail and the
\* time of that refresh as they were, and is published with its own rover and
\* base lists, its partitions and its timestamp.
C28_TrailCadence ==
    [][\A p \in ObsPayloads :
          (/\ HandleObservations(p)
           /\ "satellite_trails" \in DOMAIN last_update
           /\ now - last_update["satellite_trails"] < TrailSeconds) =>
              /\ satellite_trails' = satellite_trails
              /\ last_update' = last_update
              /\ pubs' = 1
              /\ LET obs == data'["satellite_observations"] IN
                  /\ obs.rover_satellites = Rover(p)
                  /\ obs.base_satellites = Get(Get(p, "satellites", EmptyMap), "base", << >>)
                  /\ obs.by_constellation = ByConstellation(Rover(p))
                  /\ obs.timestamp = now]_vars

\* at 0.2 Hz, 30 s after the trail refresh that admitted G01 and R02, an
\* event with G01 alone was published: the trails are those of second 0
C28_Witness ==
    /\ throttle_interval = 5
    /\ now = 30
    /\ "satellite_trails" \in DOMAIN last_update
    /\ last_update["satellite_trails"] = 0
    /\ pubs = 1
    /\ "satellite_observations" \in DOMAIN data
    /\ data["satellite_observations"].timestamp = 30
    /\ data["satellite_observations"].rover_satellites = <<SatG01>>
    /\ DOMAIN satellite_trails = {G01, R02}
    /\ Len(satellite_trails[G01]) = 1
    /\ satellite_trails[G01][1].timestamp = 0

\* C29: in every published state with observations, every identifier that
\* has a trail is an identifier of the state's rover satellite list.
C29_TrailsOnlyOfCurrent ==
    "satellite_observations" \in DOMAIN data =>
        PublishedTrailIds(data) \subseteq PublishedRoverIds(data)

\* C29, amended: the state published by an observations event whose trail
\* refresh the gate allows lists the event's rover satellites and the trails
\* are those of exactly their identifiers; an event between two refreshes is
\* published with its own list and the trails of the last refresh, whichever
\* satellites it lists.
C29_TrailsOfLastRefresh ==
    [][\A p \in ObsPayloads :
          /\ AllowedRefresh(p) =>
                /\ pubs' = 1
                /\ PublishedRoverIds(data') = RoverIds(p)
                /\ DOMAIN satellite_trails' = RoverIds(p)
          /\ (HandleObservations(p) /\ ~AllowedRefresh(p)) =>
                /\ pubs' = 1
                /\ PublishedRoverIds(data') = RoverIds(p)
                /\ DOMAIN satellite_trails' = DOMAIN satellite_trails]_vars

\* G01 and R02 were observed at second 0 and G01 alone at second 60: the
\* refresh removed R02's trail and the published state lists G01 only
C29_Witness ==
    /\ now = 60
    /\ "satellite_trails" \in DOMAIN last_update
    /\ last_update["satellite_trails"] = 60
    /\ pubs = 1
    /\ "satellite_observations" \in DOMAIN data
    /\ PublishedRoverIds(data) = {G01}
    /\ PublishedTrailIds(data) = {G01}
    /\ G01 \in DOMAIN satellite_trails
    /\ Len(satellite_trails[G01]) = 2
    /\ satellite_trails[G01][1].timestamp = 0

----------------------------------------------------------------------------
(* Properties of per-key overwrite, checked under SpecPush *)

\* the step leaves every channel of the published state but k as it was
OtherChannelsKept(k) ==
    /\ DOMAIN data' = DOMAIN data \cup {k}
    /\ \A c \in DOMAIN data \ {k} : data'[c] = data[c]

\* C30: an accepted navigation or battery event replaces the whole value of
\* its channel and of no other: a field that the event lacks has the
\* handler's default in the published value, whatever the previous value held;
\* and after a poll cycle every poll channel holds exactly the response of
\* that cycle.
C30_PerKeyOverwrite ==
    [][/\ \A p \in NavPayloads :
            (HandleNavigation(p) /\ pubs' = 1) =>
                LET nav == data'["navigation"]
                    rover_pos == Get(p, "rover_position", EmptyMap)
                IN /\ OtherChannelsKept("navigation")
                   /\ ws_data'["navigation"] = nav
                   /\ nav.solution = Get(p, "solution", "no_solution")
                   /\ "coordinates" \notin DOMAIN rover_pos =>
                         (nav.latitude = 0 /\ nav.longitude = 0 /\ nav.altitude = 0)
                   /\ "satellites" \notin DOMAIN p =>
                         (nav.satellites_rover = 0 /\ nav.satellites_valid = 0)
                   /\ "velocity" \notin DOMAIN p => nav.velocity_north = 0
                   /\ "baseline" \notin DOMAIN p => nav.baseline = 0
       /\ \A p \in BatteryPayloads :
            (HandleBattery(p) /\ pubs' = 1) =>
                LET battery == data'["battery"] IN
                /\ OtherChannelsKept("battery")
                /\ ws_data'["battery"] = battery
                /\ battery.state_of_charge = Get(p, "state_of_charge", 0)
                /\ "voltage" \notin DOMAIN p => battery.voltage = 0
                /\ "charger_status" \notin DOMAIN p => battery.charger_status = "Unknown"
       /\ PollReturn =>
            /\ \A c \in PollChannels \ {"lora_rssi"} : data'[c] = DeviceResp(c, poll_rev)
            /\ \A c \in DOMAIN data \ PollChannels : data'[c] = data[c]]_vars

\* a second after the first events, a navigation event with a solution only
\* and a battery event with a state of charge only were accepted: position
\* and voltage are back at their defaults
C30_Witness ==
    /\ now = 1
    /\ last_update = [navigation |-> 1, battery |-> 1]
    /\ "navigation" \in DOMAIN data /\ "battery" \in DOMAIN data
    /\ data["navigation"].solution = "float"
    /\ data["navigation"].latitude = 0
    /\ data["battery"].state_of_charge = 50
    /\ data["battery"].voltage = 0
    /\ PollChannels \subseteq DOMAIN data
    /\ pubs = 1

----------------------------------------------------------------------------
(* Properties of the channels an apply writes, checked under SpecFrame *)

\* the step changes no channel of the published state and of the push cache
\* outside own, and removes none
OnlyChannels(own) ==
    /\ DOMAIN data \subseteq DOMAIN data'
    /\ DOMAIN data' \subseteq DOMAIN data \cup own
    /\ \A c \in DOMAIN data \ own : data'[c] = data[c]
    /\ DOMAIN ws_data \subseteq DOMAIN ws_data'
    /\ DOMAIN ws_data' \subseteq DOMAIN ws_data \cup own
    /\ \A c \in DOMAIN ws_data \ own : ws_data'[c] = ws_data[c]

\* C31: a push event changes no channel but those of its type, in the
\* published state and in the push cache, and a poll cycle that succeeds
\* changes the five poll channels only: every push channel of the published
\* state and the whole push cache are as before.
C31_OwnChannelsOnly ==
    [][/\ \A p \in NavPayloads : HandleNavigation(p) => OnlyChannels({"navigation"})
       /\ \A p \in BatteryPayloads : HandleBattery(p) => OnlyChannels({"battery"})
       /\ \A p \in LoraPayloads : HandleLoraState(p) => OnlyChannels({"lora_connected"})
       /\ \A p \in PowerPayloads :
             HandlePowerSupply(p) =>
                 OnlyChannels({"power_usb_connected", "power_battery_present"})
       /\ \A p \in StreamPayloads :
             HandleStreamStatus(p) => OnlyChannels({"correction_input_state"})
       /\ \A p \in LogPayloads : HandleActiveLogs(p) => OnlyChannels({"logging_active"})
       /\ \A p \in GateObsPayloads :
             HandleObservations(p) => OnlyChannels({"satellite_observations"})
       /\ PollReturn =>
             /\ OnlyChannels(PollChannels)
             /\ ws_data' = ws_data
             /\ PollChannels \subseteq DOMAIN data']_vars

\* a poll cycle at revision 2 has been published over a state that held the
\* channels of all seven push event types; they are as the events left them
C31_Witness ==
    /\ last_op = "poll"
    /\ pubs = 1
    /\ PushChannels \subseteq DOMAIN data
    /\ data["configuration"] = DeviceResp("configuration", 2)
    /\ data["lora_connected"]
    /\ data["correction_input_state"] = "receiving"
    /\ data["logging_active"]
    /\ data["power_usb_connected"] /\ ~data["power_battery_present"]
    /\ data["battery"].state_of_charge = 50

----------------------------------------------------------------------------
(* Properties of the order of push events, checked under SpecQueue *)

\* the messages of a sequence that the lora_state handler applies
Handled(msgs) == SelectSeq(msgs, LAMBDA m : m.name = "lora_state")

\* the values the lora_state handler publishes for a sequence of messages
ValuesOf(msgs) ==
    [i \in 1..Len(Handled(msgs)) |-> Get(Handled(msgs)[i].payload, "connected", FALSE)]

\* C32: the messages whose handler has run are the first of the arrival
\* order and the ones still waiting are the rest of it; the values published
\* are those of the handled events in arrival order; and when a handler
\* starts, the published state holds the value of the last event handled
\* before it.
C32_ArrivalOrder ==
    /\ Len(inbox) <= Len(arrived)
    /\ inbox = SubSeq(arrived, Len(arrived) - Len(inbox) + 1, Len(arrived))
    /\ applied = ValuesOf(SubSeq(arrived, 1, Len(arrived) - Len(inbox)))
    /\ applied # << >> =>
          /\ "lora_connected" \in DOMAIN data
          /\ data["lora_connected"] = applied[Len(applied)]

\* lora_state connected, a reboot message and lora_state disconnected arrived
\* in a row; the first two have been handled, the third is waiting, and the
\* published state holds the value of the first
C32_Witness ==
    /\ arrived = <<[name |-> "lora_state", payload |-> [connected |-> TRUE]],
                   [name |-> "reboot", payload |-> [connected |-> TRUE]],
                   [name |-> "lora_state", payload |-> [connected |-> FALSE]]>>
    /\ Len(inbox) = 1
    /\ applied = <<TRUE>>
    /\ data["lora_connected"]

----------------------------------------------------------------------------
(* Properties of failing push handlers, checked under SpecFault *)

\* the event left a logged exception of the handler
RaisedIn(event) ==
    /\ dispatched'.event = event
    /\ dispatched'.outcomes = <<"raised">>

\* the step leaves the published state, the push cache, the connection, the
\* entry and the poll alone and publishes nothing
EventDropped ==
    /\ data' = data
    /\ ws_data' = ws_data
    /\ pubs' = 0
    /\ last_update_success' = last_update_success
    /\ refresh_at' = refresh_at
    /\ UNCHANGED <<setup_pc, pollVars, wsVars, callbacks>>

C37_FailedEventKeepsSlot ==
    [][/\ \A p \in MalformedNavPayloads :
              (EmitNavigation(p) /\ RaisedIn("navigation")) => last_update' = last_update
       /\ (EmitBattery(NonDict) /\ RaisedIn("battery_status")) => last_update' = last_update
       /\ \A p \in FaultNavPayloads \ MalformedNavPayloads :
              (/\ EmitNavigation(p)
               /\ dispatched.event = "navigation"
               /\ dispatched.outcomes = <<"raised">>)
              => /\ pubs' = 1
                 /\ ws_data'["navigation"] = NavData(p)
       /\ \A p \in BatteryPayloads :
              (/\ EmitBattery(p)
               /\ dispatched.event = "battery_status"
               /\ dispatched.outcomes = <<"raised">>)
              => /\ pubs' = 1
                 /\ ws_data'["battery"] = BatteryData(p)
      ]_vars

----------------------------------------------------------------------------
(* Properties of payloads that lack fields, checked under SpecBurst *)

\* the handler ran to its end: the channel holds a value and was published
Updated(channel) ==
    /\ pubs' = 1
    /\ channel \in DOMAIN ws_data'
    /\ channel \in DOMAIN data'
    /\ data'[channel] = ws_data'[channel]

\* the events other than stream_status, and the poll: the missing fields are
\* at their defaults in the value that is written and published
DefaultsTaken ==
    /\ \A p \in NavPayloads :
          (HandleNavigation(p) /\ last_update' # last_update) =>
              /\ Updated("navigation")
              /\ "solution" \notin DOMAIN p => data'["navigation"].solution = "no_solution"
              /\ "dop" \notin DOMAIN p => data'["navigation"].hdop = 0
              /\ "rover_position" \notin DOMAIN p =>
                    (data'["navigation"].latitude = 0 /\ data'["navigation"].horizontal_accuracy = 0)
    /\ \A p \in BatteryPayloads :
          (HandleBattery(p) /\ last_update' # last_update) =>
              /\ Updated("battery")
              /\ "charger_status" \notin DOMAIN p => data'["battery"].charger_status = "Unknown"
              /\ "temperature" \notin DOMAIN p => data'["battery"].temperature = 0
    /\ \A p \in PowerPayloads :
          HandlePowerSupply(p) =>
              /\ Updated("power_usb_connected")
              /\ Updated("power_battery_present")
              /\ "usb_cable_status" \notin DOMAIN p => ~data'["power_usb_connected"]
              /\ "battery_status" \notin DOMAIN p => ~data'["power_battery_present"]
    /\ \A p \in LogPayloads :
          HandleActiveLogs(p) =>
              /\ Updated("logging_active")
              /\ p = EmptyMap => ~data'["logging_active"]
    /\ \A p \in GateObsPayloads :
          HandleObservations(p) =>
              /\ Updated("satellite_observations")
              /\ "satellites" \notin DOMAIN p =>
                    data'["satellite_observations"].rover_satellites = << >>
    /\ (PollReturn /\ "rssi" \notin DOMAIN DeviceResp("lora_rssi", poll_rev))
          => data'["lora_rssi"] = 0 - 1

\* a stream_status event is written and published, a correction input
\* without state as unknown
StreamUpdated(p) ==
    HandleStreamStatus(p) =>
        /\ Updated("correction_input_state")
        /\ (\A i \in 1..Len(Get(p, "correction_input", << >>)) :
                "state" \notin DOMAIN p.correction_input[i])
           => data'["correction_input_state"] = "unknown"

\* C34 as stated: whatever fields a payload lacks, its handler writes its
\* channel and publishes, the missing fields at their defaults (solution
\* no_solution, charger status Unknown, numbers 0, lora rssi -1 after a poll).
C34_EveryPayloadPublished ==
    [][DefaultsTaken /\ \A p \in StreamPayloads : StreamUpdated(p)]_vars

\* C34, amended: the same for every event but a stream_status event that
\* lists no correction input, whose handler ends without writing or
\* publishing anything; a listed correction input without state is
\* published as unknown.
C34_MissingFieldsDefault ==
    [][/\ DefaultsTaken
       /\ \A p \in StreamPayloads :
             IF Len(Get(p, "correction_input", << >>)) > 0
             THEN StreamUpdated(p)
             ELSE HandleStreamStatus(p) =>
                     (data' = data /\ ws_data' = ws_data /\ pubs' = 0)
      ]_vars

\* a navigation event without solution, a battery event without charger
\* status and a stream_status event whose correction input has no state
\* have been published after a poll without rssi
C34_Witness ==
    /\ \A k \in {"navigation", "battery", "correction_input_state", "lora_rssi"} :
           k \in DOMAIN data
    /\ data["navigation"].solution = "no_solution"
    /\ data["battery"].charger_status = "Unknown"
    /\ data["correction_input_state"] = "unknown"
    /\ data["lora_rssi"] = 0 - 1

----------------------------------------------------------------------------
(* Properties of repeated connect() calls, checked under SpecClients *)

\* the transport clients whose on_broadcast receives an inbound event, each
\* of them dispatching it to every registered handler
Delivering == {i \in 1..Len(sio) : sio[i] = "connected"}

\* C38: at any time at most one transport client is connected, so an
\* inbound event is dispatched to each handler at most once.
C38_OneDeliveringClient == Cardinality(Delivering) <= 1

----------------------------------------------------------------------------
(* Properties of the config flow, checked under SpecFlow *)

\* C39: a submission whose validation succeeds, made in a flow that shows
\* the error of an earlier submission, creates the entry (user step, the
\* device not being configured yet) or updates it (reconfigure step, the
\* update rate being given).
C39_FlowRecovers ==
    [][\A user_input \in UserInputs, info \in InfoAnswers :
          /\ (/\ SubmitUser(user_input, "ok", info)
              /\ flow.errors # EmptyMap
              /\ flow'.serial_number \notin ConfiguredSerials)
             => flow'.result = "create_entry"
          /\ (/\ SubmitReconfigure(user_input, "ok", info)
              /\ flow.errors # EmptyMap
              /\ "update_rate" \in DOMAIN user_input)
             => flow'.result = "update_reload_and_abort"
      ]_vars

====
